---- MODULE Spec2Model ----
(***************************************************************************)
(* Model of the FAQ matcher, the emotion classifier and the response       *)
(* composer of the support chat (lib/emotionHelper, lib/emotionDetection,  *)
(* lib/empatheticResponses, lib/faqRepository).                            *)
(*                                                                         *)
(* A JavaScript string is modelled as the sequence of its UTF-16 code      *)
(* units; a code unit is a one-character TLA+ string for ASCII (the name   *)
(* "U+XXXX" for the grave accent and for the control characters that have  *)
(* no escape) and the name "U+XXXX" otherwise.  A number that is not an    *)
(* integer is an IEEE 754 double <<m, e>> of value m * 2^e.                *)
(***************************************************************************)
EXTENDS Integers, Sequences, FiniteSets, TLC

VARIABLES
    text,             \* the utterance passed to the call
    faqs,             \* the catalog passed to the call
    wrapArgs,         \* the arguments of generateEmpatheticResponse
    match,            \* what findFaq returned
    emotionAnalysis,  \* what detectEmotion returned
    result,           \* what analyzeAndRespond returned
    wrapped,          \* what generateEmpatheticResponse returned
    operands,         \* the two strings passed to similarity and tokenOverlap
    simResult,        \* what similarity returned
    overlapResult,    \* what tokenOverlap returned
    levResult,        \* what levenshtein returned
    supabaseEnabled,  \* SUPABASE_ENABLED
    isOpen,           \* Chatbot state: the dialog is open
    isMinimized,      \* Chatbot state: the dialog shows its header only
    messages,         \* Chatbot state: the transcript
    faqsState,        \* Chatbot state: the catalog set by setFaqs
    conversationId,   \* Chatbot state: the id of the conversation row
    fetchFAQsTask,    \* the progress of fetchFAQs
    faqsResponse,     \* what the faqs query answered
    conversationInsert, \* the progress of the insert of initializeConversation
    replyTimers,      \* the pending setTimeout callbacks, oldest first
    dbRequests,       \* the requests of saveMessageToDatabase in flight
    conversationMessages, \* the rows of the table conversation_messages
    conversations,    \* the rows of the table conversations
    dbFailed,         \* a database request reported or threw an error
    recognitionSupported, \* isSpeechRecognitionSupported()
    promise,          \* the promise returned by listenOnce
    finished,         \* listenOnce: the flag finished
    listeners,        \* listenOnce: the event listeners registered on recog
    recogStarted,     \* recog.start() returned
    listenTimer,      \* listenOnce: the safety timeout
    dispatched,       \* the events the recognizer has dispatched, oldest first
    showtimeRow,      \* the row of the table showtimes
    bookings,         \* the rows of the table bookings
    bookingForms,     \* the state of each open BookingForm
    voiceChat         \* VoiceChat: listening, and the startListen calls in progress

measureVars == <<operands, simResult, overlapResult, levResult>>

callVars == <<text, faqs, wrapArgs, match, emotionAnalysis, result, wrapped,
              measureVars>>

chatVars == <<supabaseEnabled, isOpen, isMinimized, messages, faqsState, conversationId,
              fetchFAQsTask, faqsResponse, conversationInsert, replyTimers,
              dbRequests, conversationMessages, conversations, dbFailed>>

listenVars == <<recognitionSupported, promise, finished, listeners,
                recogStarted, listenTimer, dispatched>>

bookingVars == <<showtimeRow, bookings, bookingForms>>

voiceVars == <<voiceChat>>

vars == <<callVars, chatVars, listenVars, bookingVars, voiceVars>>

(***************************************************************************)
(* Bounds of the explored inputs.                                          *)
(***************************************************************************)
MaxFaqs == 2
MaxTextLen == 3
MaxFragments == 2
MaxSends == 1
MaxVoiceReplies == 1
MaxEvents == 3
MaxForms == 2
MaxSeats == 2
MaxBookings == 3
ConfidenceGrid == 20

(***************************************************************************)
(* JavaScript values that are not strings.                                 *)
(***************************************************************************)
Undefined == <<"undefined">>
Null == <<"null">>
\* what toLowerCase yields when it is called on undefined
TypeError == <<"TypeError">>
\* the outcome of a call that raised
Raised == [error |-> "TypeError"]
\* the value of a result variable before the call
NotCalled == [called |-> FALSE]

Min2(x, y) == IF y < x THEN y ELSE x
Max2(x, y) == IF y > x THEN y ELSE x

(***************************************************************************)
(* Numbers: IEEE 754 binary64, round to nearest, ties to even.             *)
(***************************************************************************)
LimbBits == 14
Base == 2^LimbBits
MantissaBits == 53

\* limb k of a natural number, 0 beyond its length
Limb(a, k) == IF k >= 1 /\ k <= Len(a) THEN a[k] ELSE 0

\* the natural number whose limb k is cols[k] plus the carry of the limbs
\* below it
RECURSIVE Carry(_, _)
Carry(cols, c) ==
    IF cols = <<>> THEN (IF c = 0 THEN <<>> ELSE <<c>>)
    ELSE LET t == Head(cols) + c
         IN  <<t % Base>> \o Carry(Tail(cols), t \div Base)

RECURSIVE Column(_, _, _, _)
Column(a, b, k, i) ==
    IF i > Min2(k, Len(a)) THEN 0
    ELSE Limb(a, i) * Limb(b, k + 1 - i) + Column(a, b, k, i + 1)

NatAdd(a, b) ==
    Carry([k \in 1..Max2(Len(a), Len(b)) |-> Limb(a, k) + Limb(b, k)], 0)
\* a - b for a >= b
NatSub(a, b) ==
    Carry([k \in 1..Max2(Len(a), Len(b)) |-> Limb(a, k) - Limb(b, k)], 0)
NatMul(a, b) ==
    IF a = <<>> \/ b = <<>> THEN <<>>
    ELSE Carry([k \in 1..(Len(a) + Len(b) - 1) |-> Column(a, b, k, 1)], 0)

\* the greatest element of a set of positions, 0 for the empty set
Greatest(S) == IF S = {} THEN 0 ELSE CHOOSE i \in S : \A j \in S : j <= i

\* -1, 0 or 1 as a is less than, equal to or greater than b: the highest
\* limb in which they differ decides
NatCmp(a, b) ==
    LET k == Greatest({i \in 1..Max2(Len(a), Len(b)) :
                          Limb(a, i) # Limb(b, i)})
    IN  IF Limb(a, k) < Limb(b, k) THEN -1
        ELSE IF Limb(a, k) > Limb(b, k) THEN 1 ELSE 0

\* the number of binary digits of a
BitLength(a) ==
    LET k == Greatest({i \in 1..Len(a) : a[i] # 0})
    IN  IF k = 0 THEN 0
        ELSE (k - 1) * LimbBits
                + Cardinality({b \in 0..(LimbBits - 1) : 2^b <= a[k]})

\* a * 2^s and the integer part of a / 2^s
ShiftLeft(a, s) ==
    [k \in 1..(s \div LimbBits) |-> 0]
        \o Carry([k \in 1..Len(a) |-> a[k] * 2^(s % LimbBits)], 0)
ShiftRight(a, s) ==
    LET q == s \div LimbBits
        r == s % LimbBits
    IN  [k \in 1..(Len(a) - q) |->
            (a[k + q] \div 2^r)
                + (Limb(a, k + q + 1) % 2^r) * 2^(LimbBits - r)]

\* the quotient and the remainder of a by the integer m, 0 < m < 2^16,
\* taking the limbs k, k - 1, ..., 1 of a after the remainder rem
RECURSIVE DivLimbs(_, _, _, _)
DivLimbs(a, m, k, rem) ==
    IF k = 0 THEN [q |-> <<>>, r |-> rem]
    ELSE LET t == rem * Base + a[k]
             low == DivLimbs(a, m, k - 1, t % m)
         IN  [q |-> Append(low.q, t \div m), r |-> low.r]

\* a double is <<m, e>> for the value m * 2^e, with the 53-bit mantissa m
\* as four limbs of 14 bits, lowest first, and 2^52 <= m < 2^53; zero is
\* Zero.  Every number of the program is finite, not negative, and far from
\* the subnormal range and from overflow.
Zero == <<(<<0, 0, 0, 0>>), 0>>

Mantissa(a) == [k \in 1..4 |-> Limb(a, k)]

\* the double m * 2^e of a mantissa that rounding up may have brought to
\* 2^53
Renormalized(m, e) ==
    IF BitLength(m) > MantissaBits
    THEN <<Mantissa(ShiftRight(m, 1)), e + 1>>
    ELSE <<Mantissa(m), e>>

\* q * 2^e rounded to nearest, ties to even: cmp compares what was cut off
\* below q with half a unit of q
RoundNearest(q, cmp, e, inexact) ==
    IF cmp > 0 \/ (cmp = 0 /\ (inexact \/ q[1] % 2 = 1))
    THEN Renormalized(NatAdd(q, <<1>>), e)
    ELSE Renormalized(q, e)

\* a * 2^e for a of len binary digits: the len - 53 lowest bits of a are
\* cut off and compared with half a unit of what is left
RoundBits(a, len, e, inexact) ==
    IF len = 0 THEN Zero
    ELSE IF len <= MantissaBits
    THEN <<Mantissa(ShiftLeft(a, MantissaBits - len)), e + len - MantissaBits>>
    ELSE RoundNearest(
             ShiftRight(a, len - MantissaBits),
             NatCmp(NatSub(a, ShiftLeft(ShiftRight(a, len - MantissaBits),
                                        len - MantissaBits)),
                    ShiftLeft(<<1>>, len - MantissaBits - 1)),
             e + len - MantissaBits, inexact)

\* the double nearest to a * 2^e, or to a number above a * 2^e and below
\* (a + 1) * 2^e when inexact
RoundToDouble(a, e, inexact) == RoundBits(a, BitLength(a), e, inexact)

\* the double of an integer 0 <= i < 2^31
FromInt(i) ==
    RoundToDouble(<<i % Base, (i \div Base) % Base, i \div (Base * Base)>>,
                  0, FALSE)

\* x / i for a double x and an integer 0 < i < 2^16
DoubleDivInt(x, i) ==
    IF x = Zero THEN Zero
    ELSE LET qr == DivLimbs(<<0, 0>> \o x[1], i, Len(x[1]) + 2, 0)
         IN  RoundToDouble(qr.q, x[2] - 2 * LimbBits, qr.r # 0)

\* the double i / j of two integers, and the double of the decimal literal
\* that is written i / j
Double(i, j) == DoubleDivInt(FromInt(i), j)

One == FromInt(1)

DoubleLess(x, y) ==
    IF y = Zero THEN FALSE
    ELSE IF x = Zero THEN TRUE
    ELSE x[2] < y[2] \/ (x[2] = y[2] /\ NatCmp(x[1], y[1]) < 0)
DoubleLeq(x, y) == x = y \/ DoubleLess(x, y)
DoubleMax(x, y) == IF DoubleLess(x, y) THEN y ELSE x
DoubleMin(x, y) == IF DoubleLess(y, x) THEN y ELSE x

DoubleAdd(x, y) ==
    IF x = Zero THEN y
    ELSE IF y = Zero THEN x
    ELSE LET e == Min2(x[2], y[2])
         IN  RoundToDouble(NatAdd(ShiftLeft(x[1], x[2] - e),
                                  ShiftLeft(y[1], y[2] - e)), e, FALSE)

\* x - y for x >= y
DoubleSub(x, y) ==
    IF y = Zero THEN x
    ELSE LET e == Min2(x[2], y[2])
         IN  RoundToDouble(NatSub(ShiftLeft(x[1], x[2] - e),
                                  ShiftLeft(y[1], y[2] - e)), e, FALSE)

DoubleMul(x, y) ==
    IF x = Zero \/ y = Zero THEN Zero
    ELSE RoundToDouble(NatMul(x[1], y[1]), x[2] + y[2], FALSE)

(***************************************************************************)
(* String primitives of the JavaScript runtime.                            *)
(***************************************************************************)
UpperCase == <<"A","B","C","D","E","F","G","H","I","J","K","L","M",
               "N","O","P","Q","R","S","T","U","V","W","X","Y","Z">>
LowerCase == <<"a","b","c","d","e","f","g","h","i","j","k","l","m",
               "n","o","p","q","r","s","t","u","v","w","x","y","z">>
Digits == {"0","1","2","3","4","5","6","7","8","9"}
Range(s) == {s[i] : i \in 1..Len(s)}
WordChars == Range(UpperCase) \cup Range(LowerCase) \cup Digits \cup {"_"}
\* the WhiteSpace and LineTerminator code points of ECMAScript: tab, line
\* feed, vertical tab, form feed, carriage return, the byte order mark, the
\* line and paragraph separators and the space separators (category Zs)
WhiteSpace ==
    {" ", "\t", "\n", "U+000B", "\f", "\r", "U+00A0", "U+1680", "U+2000",
     "U+2001", "U+2002", "U+2003", "U+2004", "U+2005", "U+2006", "U+2007",
     "U+2008", "U+2009", "U+200A", "U+2028", "U+2029", "U+202F", "U+205F",
     "U+3000", "U+FEFF"}

\* the code units above U+007F that toLowerCase replaces by one other code
\* unit, and their replacements, position by position.  The case tables are
\* those of Unicode 17 (ICU 78); an engine with older tables leaves the code
\* points that were assigned later unchanged
UnicodeUpper ==
    << "U+00C0", "U+00C1", "U+00C2", "U+00C3", "U+00C4", "U+00C5", "U+00C6",
       "U+00C7", "U+00C8", "U+00C9", "U+00CA", "U+00CB", "U+00CC", "U+00CD",
       "U+00CE", "U+00CF", "U+00D0", "U+00D1", "U+00D2", "U+00D3", "U+00D4",
       "U+00D5", "U+00D6", "U+00D8", "U+00D9", "U+00DA", "U+00DB", "U+00DC",
       "U+00DD", "U+00DE", "U+0100", "U+0102", "U+0104", "U+0106", "U+0108",
       "U+010A", "U+010C", "U+010E", "U+0110", "U+0112", "U+0114", "U+0116",
       "U+0118", "U+011A", "U+011C", "U+011E", "U+0120", "U+0122", "U+0124",
       "U+0126", "U+0128", "U+012A", "U+012C", "U+012E", "U+0132", "U+0134",
       "U+0136", "U+0139", "U+013B", "U+013D", "U+013F", "U+0141", "U+0143",
       "U+0145", "U+0147", "U+014A", "U+014C", "U+014E", "U+0150", "U+0152",
       "U+0154", "U+0156", "U+0158", "U+015A", "U+015C", "U+015E", "U+0160",
       "U+0162", "U+0164", "U+0166", "U+0168", "U+016A", "U+016C", "U+016E",
       "U+0170", "U+0172", "U+0174", "U+0176", "U+0178", "U+0179", "U+017B",
       "U+017D", "U+0181", "U+0182", "U+0184", "U+0186", "U+0187", "U+0189",
       "U+018A", "U+018B", "U+018E", "U+018F", "U+0190", "U+0191", "U+0193",
       "U+0194", "U+0196", "U+0197", "U+0198", "U+019C", "U+019D", "U+019F",
       "U+01A0", "U+01A2", "U+01A4", "U+01A6", "U+01A7", "U+01A9", "U+01AC",
       "U+01AE", "U+01AF", "U+01B1", "U+01B2", "U+01B3", "U+01B5", "U+01B7",
       "U+01B8", "U+01BC", "U+01C4", "U+01C5", "U+01C7", "U+01C8", "U+01CA",
       "U+01CB", "U+01CD", "U+01CF", "U+01D1", "U+01D3", "U+01D5", "U+01D7",
       "U+01D9", "U+01DB", "U+01DE", "U+01E0", "U+01E2", "U+01E4", "U+01E6",
       "U+01E8", "U+01EA", "U+01EC", "U+01EE", "U+01F1", "U+01F2", "U+01F4",
       "U+01F6", "U+01F7", "U+01F8", "U+01FA", "U+01FC", "U+01FE", "U+0200",
       "U+0202", "U+0204", "U+0206", "U+0208", "U+020A", "U+020C", "U+020E",
       "U+0210", "U+0212", "U+0214", "U+0216", "U+0218", "U+021A", "U+021C",
       "U+021E", "U+0220", "U+0222", "U+0224", "U+0226", "U+0228", "U+022A",
       "U+022C", "U+022E", "U+0230", "U+0232", "U+023A", "U+023B", "U+023D",
       "U+023E", "U+0241", "U+0243", "U+0244", "U+0245", "U+0246", "U+0248",
       "U+024A", "U+024C", "U+024E", "U+0370", "U+0372", "U+0376", "U+037F",
       "U+0386", "U+0388", "U+0389", "U+038A", "U+038C", "U+038E", "U+038F",
       "U+0391", "U+0392", "U+0393", "U+0394", "U+0395", "U+0396", "U+0397",
       "U+0398", "U+0399", "U+039A", "U+039B", "U+039C", "U+039D", "U+039E",
       "U+039F", "U+03A0", "U+03A1", "U+03A4", "U+03A5", "U+03A6", "U+03A7",
       "U+03A8", "U+03A9", "U+03AA", "U+03AB", "U+03CF", "U+03D8", "U+03DA",
       "U+03DC", "U+03DE", "U+03E0", "U+03E2", "U+03E4", "U+03E6", "U+03E8",
       "U+03EA", "U+03EC", "U+03EE", "U+03F4", "U+03F7", "U+03F9", "U+03FA",
       "U+03FD", "U+03FE", "U+03FF", "U+0400", "U+0401", "U+0402", "U+0403",
       "U+0404", "U+0405", "U+0406", "U+0407", "U+0408", "U+0409", "U+040A",
       "U+040B", "U+040C", "U+040D", "U+040E", "U+040F", "U+0410", "U+0411",
       "U+0412", "U+0413", "U+0414", "U+0415", "U+0416", "U+0417", "U+0418",
       "U+0419", "U+041A", "U+041B", "U+041C", "U+041D", "U+041E", "U+041F",
       "U+0420", "U+0421", "U+0422", "U+0423", "U+0424", "U+0425", "U+0426",
       "U+0427", "U+0428", "U+0429", "U+042A", "U+042B", "U+042C", "U+042D",
       "U+042E", "U+042F", "U+0460", "U+0462", "U+0464", "U+0466", "U+0468",
       "U+046A", "U+046C", "U+046E", "U+0470", "U+0472", "U+0474", "U+0476",
       "U+0478", "U+047A", "U+047C", "U+047E", "U+0480", "U+048A", "U+048C",
       "U+048E", "U+0490", "U+0492", "U+0494", "U+0496", "U+0498", "U+049A",
       "U+049C", "U+049E", "U+04A0", "U+04A2", "U+04A4", "U+04A6", "U+04A8",
       "U+04AA", "U+04AC", "U+04AE", "U+04B0", "U+04B2", "U+04B4", "U+04B6",
       "U+04B8", "U+04BA", "U+04BC", "U+04BE", "U+04C0", "U+04C1", "U+04C3",
       "U+04C5", "U+04C7", "U+04C9", "U+04CB", "U+04CD", "U+04D0", "U+04D2",
       "U+04D4", "U+04D6", "U+04D8", "U+04DA", "U+04DC", "U+04DE", "U+04E0",
       "U+04E2", "U+04E4", "U+04E6", "U+04E8", "U+04EA", "U+04EC", "U+04EE",
       "U+04F0", "U+04F2", "U+04F4", "U+04F6", "U+04F8", "U+04FA", "U+04FC",
       "U+04FE", "U+0500", "U+0502", "U+0504", "U+0506", "U+0508", "U+050A",
       "U+050C", "U+050E", "U+0510", "U+0512", "U+0514", "U+0516", "U+0518",
       "U+051A", "U+051C", "U+051E", "U+0520", "U+0522", "U+0524", "U+0526",
       "U+0528", "U+052A", "U+052C", "U+052E", "U+0531", "U+0532", "U+0533",
       "U+0534", "U+0535", "U+0536", "U+0537", "U+0538", "U+0539", "U+053A",
       "U+053B", "U+053C", "U+053D", "U+053E", "U+053F", "U+0540", "U+0541",
       "U+0542", "U+0543", "U+0544", "U+0545", "U+0546", "U+0547", "U+0548",
       "U+0549", "U+054A", "U+054B", "U+054C", "U+054D", "U+054E", "U+054F",
       "U+0550", "U+0551", "U+0552", "U+0553", "U+0554", "U+0555", "U+0556",
       "U+10A0", "U+10A1", "U+10A2", "U+10A3", "U+10A4", "U+10A5", "U+10A6",
       "U+10A7", "U+10A8", "U+10A9", "U+10AA", "U+10AB", "U+10AC", "U+10AD",
       "U+10AE", "U+10AF", "U+10B0", "U+10B1", "U+10B2", "U+10B3", "U+10B4",
       "U+10B5", "U+10B6", "U+10B7", "U+10B8", "U+10B9", "U+10BA", "U+10BB",
       "U+10BC", "U+10BD", "U+10BE", "U+10BF", "U+10C0", "U+10C1", "U+10C2",
       "U+10C3", "U+10C4", "U+10C5", "U+10C7", "U+10CD", "U+13A0", "U+13A1",
       "U+13A2", "U+13A3", "U+13A4", "U+13A5", "U+13A6", "U+13A7", "U+13A8",
       "U+13A9", "U+13AA", "U+13AB", "U+13AC", "U+13AD", "U+13AE", "U+13AF",
       "U+13B0", "U+13B1", "U+13B2", "U+13B3", "U+13B4", "U+13B5", "U+13B6",
       "U+13B7", "U+13B8", "U+13B9", "U+13BA", "U+13BB", "U+13BC", "U+13BD",
       "U+13BE", "U+13BF", "U+13C0", "U+13C1", "U+13C2", "U+13C3", "U+13C4",
       "U+13C5", "U+13C6", "U+13C7", "U+13C8", "U+13C9", "U+13CA", "U+13CB",
       "U+13CC", "U+13CD", "U+13CE", "U+13CF", "U+13D0", "U+13D1", "U+13D2",
       "U+13D3", "U+13D4", "U+13D5", "U+13D6", "U+13D7", "U+13D8", "U+13D9",
       "U+13DA", "U+13DB", "U+13DC", "U+13DD", "U+13DE", "U+13DF", "U+13E0",
       "U+13E1", "U+13E2", "U+13E3", "U+13E4", "U+13E5", "U+13E6", "U+13E7",
       "U+13E8", "U+13E9", "U+13EA", "U+13EB", "U+13EC", "U+13ED", "U+13EE",
       "U+13EF", "U+13F0", "U+13F1", "U+13F2", "U+13F3", "U+13F4", "U+13F5",
       "U+1C89", "U+1C90", "U+1C91", "U+1C92", "U+1C93", "U+1C94", "U+1C95",
       "U+1C96", "U+1C97", "U+1C98", "U+1C99", "U+1C9A", "U+1C9B", "U+1C9C",
       "U+1C9D", "U+1C9E", "U+1C9F", "U+1CA0", "U+1CA1", "U+1CA2", "U+1CA3",
       "U+1CA4", "U+1CA5", "U+1CA6", "U+1CA7", "U+1CA8", "U+1CA9", "U+1CAA",
       "U+1CAB", "U+1CAC", "U+1CAD", "U+1CAE", "U+1CAF", "U+1CB0", "U+1CB1",
       "U+1CB2", "U+1CB3", "U+1CB4", "U+1CB5", "U+1CB6", "U+1CB7", "U+1CB8",
       "U+1CB9", "U+1CBA", "U+1CBD", "U+1CBE", "U+1CBF", "U+1E00", "U+1E02",
       "U+1E04", "U+1E06", "U+1E08", "U+1E0A", "U+1E0C", "U+1E0E", "U+1E10",
       "U+1E12", "U+1E14", "U+1E16", "U+1E18", "U+1E1A", "U+1E1C", "U+1E1E",
       "U+1E20", "U+1E22", "U+1E24", "U+1E26", "U+1E28", "U+1E2A", "U+1E2C",
       "U+1E2E", "U+1E30", "U+1E32", "U+1E34", "U+1E36", "U+1E38", "U+1E3A",
       "U+1E3C", "U+1E3E", "U+1E40", "U+1E42", "U+1E44", "U+1E46", "U+1E48",
       "U+1E4A", "U+1E4C", "U+1E4E", "U+1E50", "U+1E52", "U+1E54", "U+1E56",
       "U+1E58", "U+1E5A", "U+1E5C", "U+1E5E", "U+1E60", "U+1E62", "U+1E64",
       "U+1E66", "U+1E68", "U+1E6A", "U+1E6C", "U+1E6E", "U+1E70", "U+1E72",
       "U+1E74", "U+1E76", "U+1E78", "U+1E7A", "U+1E7C", "U+1E7E", "U+1E80",
       "U+1E82", "U+1E84", "U+1E86", "U+1E88", "U+1E8A", "U+1E8C", "U+1E8E",
       "U+1E90", "U+1E92", "U+1E94", "U+1E9E", "U+1EA0", "U+1EA2", "U+1EA4",
       "U+1EA6", "U+1EA8", "U+1EAA", "U+1EAC", "U+1EAE", "U+1EB0", "U+1EB2",
       "U+1EB4", "U+1EB6", "U+1EB8", "U+1EBA", "U+1EBC", "U+1EBE", "U+1EC0",
       "U+1EC2", "U+1EC4", "U+1EC6", "U+1EC8", "U+1ECA", "U+1ECC", "U+1ECE",
       "U+1ED0", "U+1ED2", "U+1ED4", "U+1ED6", "U+1ED8", "U+1EDA", "U+1EDC",
       "U+1EDE", "U+1EE0", "U+1EE2", "U+1EE4", "U+1EE6", "U+1EE8", "U+1EEA",
       "U+1EEC", "U+1EEE", "U+1EF0", "U+1EF2", "U+1EF4", "U+1EF6", "U+1EF8",
       "U+1EFA", "U+1EFC", "U+1EFE", "U+1F08", "U+1F09", "U+1F0A", "U+1F0B",
       "U+1F0C", "U+1F0D", "U+1F0E", "U+1F0F", "U+1F18", "U+1F19", "U+1F1A",
       "U+1F1B", "U+1F1C", "U+1F1D", "U+1F28", "U+1F29", "U+1F2A", "U+1F2B",
       "U+1F2C", "U+1F2D", "U+1F2E", "U+1F2F", "U+1F38", "U+1F39", "U+1F3A",
       "U+1F3B", "U+1F3C", "U+1F3D", "U+1F3E", "U+1F3F", "U+1F48", "U+1F49",
       "U+1F4A", "U+1F4B", "U+1F4C", "U+1F4D", "U+1F59", "U+1F5B", "U+1F5D",
       "U+1F5F", "U+1F68", "U+1F69", "U+1F6A", "U+1F6B", "U+1F6C", "U+1F6D",
       "U+1F6E", "U+1F6F", "U+1F88", "U+1F89", "U+1F8A", "U+1F8B", "U+1F8C",
       "U+1F8D", "U+1F8E", "U+1F8F", "U+1F98", "U+1F99", "U+1F9A", "U+1F9B",
       "U+1F9C", "U+1F9D", "U+1F9E", "U+1F9F", "U+1FA8", "U+1FA9", "U+1FAA",
       "U+1FAB", "U+1FAC", "U+1FAD", "U+1FAE", "U+1FAF", "U+1FB8", "U+1FB9",
       "U+1FBA", "U+1FBB", "U+1FBC", "U+1FC8", "U+1FC9", "U+1FCA", "U+1FCB",
       "U+1FCC", "U+1FD8", "U+1FD9", "U+1FDA", "U+1FDB", "U+1FE8", "U+1FE9",
       "U+1FEA", "U+1FEB", "U+1FEC", "U+1FF8", "U+1FF9", "U+1FFA", "U+1FFB",
       "U+1FFC", "U+2126", "U+212A", "U+212B", "U+2132", "U+2160", "U+2161",
       "U+2162", "U+2163", "U+2164", "U+2165", "U+2166", "U+2167", "U+2168",
       "U+2169", "U+216A", "U+216B", "U+216C", "U+216D", "U+216E", "U+216F",
       "U+2183", "U+24B6", "U+24B7", "U+24B8", "U+24B9", "U+24BA", "U+24BB",
       "U+24BC", "U+24BD", "U+24BE", "U+24BF", "U+24C0", "U+24C1", "U+24C2",
       "U+24C3", "U+24C4", "U+24C5", "U+24C6", "U+24C7", "U+24C8", "U+24C9",
       "U+24CA", "U+24CB", "U+24CC", "U+24CD", "U+24CE", "U+24CF", "U+2C00",
       "U+2C01", "U+2C02", "U+2C03", "U+2C04", "U+2C05", "U+2C06", "U+2C07",
       "U+2C08", "U+2C09", "U+2C0A", "U+2C0B", "U+2C0C", "U+2C0D", "U+2C0E",
       "U+2C0F", "U+2C10", "U+2C11", "U+2C12", "U+2C13", "U+2C14", "U+2C15",
       "U+2C16", "U+2C17", "U+2C18", "U+2C19", "U+2C1A", "U+2C1B", "U+2C1C",
       "U+2C1D", "U+2C1E", "U+2C1F", "U+2C20", "U+2C21", "U+2C22", "U+2C23",
       "U+2C24", "U+2C25", "U+2C26", "U+2C27", "U+2C28", "U+2C29", "U+2C2A",
       "U+2C2B", "U+2C2C", "U+2C2D", "U+2C2E", "U+2C2F", "U+2C60", "U+2C62",
       "U+2C63", "U+2C64", "U+2C67", "U+2C69", "U+2C6B", "U+2C6D", "U+2C6E",
       "U+2C6F", "U+2C70", "U+2C72", "U+2C75", "U+2C7E", "U+2C7F", "U+2C80",
       "U+2C82", "U+2C84", "U+2C86", "U+2C88", "U+2C8A", "U+2C8C", "U+2C8E",
       "U+2C90", "U+2C92", "U+2C94", "U+2C96", "U+2C98", "U+2C9A", "U+2C9C",
       "U+2C9E", "U+2CA0", "U+2CA2", "U+2CA4", "U+2CA6", "U+2CA8", "U+2CAA",
       "U+2CAC", "U+2CAE", "U+2CB0", "U+2CB2", "U+2CB4", "U+2CB6", "U+2CB8",
       "U+2CBA", "U+2CBC", "U+2CBE", "U+2CC0", "U+2CC2", "U+2CC4", "U+2CC6",
       "U+2CC8", "U+2CCA", "U+2CCC", "U+2CCE", "U+2CD0", "U+2CD2", "U+2CD4",
       "U+2CD6", "U+2CD8", "U+2CDA", "U+2CDC", "U+2CDE", "U+2CE0", "U+2CE2",
       "U+2CEB", "U+2CED", "U+2CF2", "U+A640", "U+A642", "U+A644", "U+A646",
       "U+A648", "U+A64A", "U+A64C", "U+A64E", "U+A650", "U+A652", "U+A654",
       "U+A656", "U+A658", "U+A65A", "U+A65C", "U+A65E", "U+A660", "U+A662",
       "U+A664", "U+A666", "U+A668", "U+A66A", "U+A66C", "U+A680", "U+A682",
       "U+A684", "U+A686", "U+A688", "U+A68A", "U+A68C", "U+A68E", "U+A690",
       "U+A692", "U+A694", "U+A696", "U+A698", "U+A69A", "U+A722", "U+A724",
       "U+A726", "U+A728", "U+A72A", "U+A72C", "U+A72E", "U+A732", "U+A734",
       "U+A736", "U+A738", "U+A73A", "U+A73C", "U+A73E", "U+A740", "U+A742",
       "U+A744", "U+A746", "U+A748", "U+A74A", "U+A74C", "U+A74E", "U+A750",
       "U+A752", "U+A754", "U+A756", "U+A758", "U+A75A", "U+A75C", "U+A75E",
       "U+A760", "U+A762", "U+A764", "U+A766", "U+A768", "U+A76A", "U+A76C",
       "U+A76E", "U+A779", "U+A77B", "U+A77D", "U+A77E", "U+A780", "U+A782",
       "U+A784", "U+A786", "U+A78B", "U+A78D", "U+A790", "U+A792", "U+A796",
       "U+A798", "U+A79A", "U+A79C", "U+A79E", "U+A7A0", "U+A7A2", "U+A7A4",
       "U+A7A6", "U+A7A8", "U+A7AA", "U+A7AB", "U+A7AC", "U+A7AD", "U+A7AE",
       "U+A7B0", "U+A7B1", "U+A7B2", "U+A7B3", "U+A7B4", "U+A7B6", "U+A7B8",
       "U+A7BA", "U+A7BC", "U+A7BE", "U+A7C0", "U+A7C2", "U+A7C4", "U+A7C5",
       "U+A7C6", "U+A7C7", "U+A7C9", "U+A7CB", "U+A7CC", "U+A7CE", "U+A7D0",
       "U+A7D2", "U+A7D4", "U+A7D6", "U+A7D8", "U+A7DA", "U+A7DC", "U+A7F5",
       "U+FF21", "U+FF22", "U+FF23", "U+FF24", "U+FF25", "U+FF26", "U+FF27",
       "U+FF28", "U+FF29", "U+FF2A", "U+FF2B", "U+FF2C", "U+FF2D", "U+FF2E",
       "U+FF2F", "U+FF30", "U+FF31", "U+FF32", "U+FF33", "U+FF34", "U+FF35",
       "U+FF36", "U+FF37", "U+FF38", "U+FF39", "U+FF3A" >>

UnicodeLower ==
    << "U+00E0", "U+00E1", "U+00E2", "U+00E3", "U+00E4", "U+00E5", "U+00E6",
       "U+00E7", "U+00E8", "U+00E9", "U+00EA", "U+00EB", "U+00EC", "U+00ED",
       "U+00EE", "U+00EF", "U+00F0", "U+00F1", "U+00F2", "U+00F3", "U+00F4",
       "U+00F5", "U+00F6", "U+00F8", "U+00F9", "U+00FA", "U+00FB", "U+00FC",
       "U+00FD", "U+00FE", "U+0101", "U+0103", "U+0105", "U+0107", "U+0109",
       "U+010B", "U+010D", "U+010F", "U+0111", "U+0113", "U+0115", "U+0117",
       "U+0119", "U+011B", "U+011D", "U+011F", "U+0121", "U+0123", "U+0125",
       "U+0127", "U+0129", "U+012B", "U+012D", "U+012F", "U+0133", "U+0135",
       "U+0137", "U+013A", "U+013C", "U+013E", "U+0140", "U+0142", "U+0144",
       "U+0146", "U+0148", "U+014B", "U+014D", "U+014F", "U+0151", "U+0153",
       "U+0155", "U+0157", "U+0159", "U+015B", "U+015D", "U+015F", "U+0161",
       "U+0163", "U+0165", "U+0167", "U+0169", "U+016B", "U+016D", "U+016F",
       "U+0171", "U+0173", "U+0175", "U+0177", "U+00FF", "U+017A", "U+017C",
       "U+017E", "U+0253", "U+0183", "U+0185", "U+0254", "U+0188", "U+0256",
       "U+0257", "U+018C", "U+01DD", "U+0259", "U+025B", "U+0192", "U+0260",
       "U+0263", "U+0269", "U+0268", "U+0199", "U+026F", "U+0272", "U+0275",
       "U+01A1", "U+01A3", "U+01A5", "U+0280", "U+01A8", "U+0283", "U+01AD",
       "U+0288", "U+01B0", "U+028A", "U+028B", "U+01B4", "U+01B6", "U+0292",
       "U+01B9", "U+01BD", "U+01C6", "U+01C6", "U+01C9", "U+01C9", "U+01CC",
       "U+01CC", "U+01CE", "U+01D0", "U+01D2", "U+01D4", "U+01D6", "U+01D8",
       "U+01DA", "U+01DC", "U+01DF", "U+01E1", "U+01E3", "U+01E5", "U+01E7",
       "U+01E9", "U+01EB", "U+01ED", "U+01EF", "U+01F3", "U+01F3", "U+01F5",
       "U+0195", "U+01BF", "U+01F9", "U+01FB", "U+01FD", "U+01FF", "U+0201",
       "U+0203", "U+0205", "U+0207", "U+0209", "U+020B", "U+020D", "U+020F",
       "U+0211", "U+0213", "U+0215", "U+0217", "U+0219", "U+021B", "U+021D",
       "U+021F", "U+019E", "U+0223", "U+0225", "U+0227", "U+0229", "U+022B",
       "U+022D", "U+022F", "U+0231", "U+0233", "U+2C65", "U+023C", "U+019A",
       "U+2C66", "U+0242", "U+0180", "U+0289", "U+028C", "U+0247", "U+0249",
       "U+024B", "U+024D", "U+024F", "U+0371", "U+0373", "U+0377", "U+03F3",
       "U+03AC", "U+03AD", "U+03AE", "U+03AF", "U+03CC", "U+03CD", "U+03CE",
       "U+03B1", "U+03B2", "U+03B3", "U+03B4", "U+03B5", "U+03B6", "U+03B7",
       "U+03B8", "U+03B9", "U+03BA", "U+03BB", "U+03BC", "U+03BD", "U+03BE",
       "U+03BF", "U+03C0", "U+03C1", "U+03C4", "U+03C5", "U+03C6", "U+03C7",
       "U+03C8", "U+03C9", "U+03CA", "U+03CB", "U+03D7", "U+03D9", "U+03DB",
       "U+03DD", "U+03DF", "U+03E1", "U+03E3", "U+03E5", "U+03E7", "U+03E9",
       "U+03EB", "U+03ED", "U+03EF", "U+03B8", "U+03F8", "U+03F2", "U+03FB",
       "U+037B", "U+037C", "U+037D", "U+0450", "U+0451", "U+0452", "U+0453",
       "U+0454", "U+0455", "U+0456", "U+0457", "U+0458", "U+0459", "U+045A",
       "U+045B", "U+045C", "U+045D", "U+045E", "U+045F", "U+0430", "U+0431",
       "U+0432", "U+0433", "U+0434", "U+0435", "U+0436", "U+0437", "U+0438",
       "U+0439", "U+043A", "U+043B", "U+043C", "U+043D", "U+043E", "U+043F",
       "U+0440", "U+0441", "U+0442", "U+0443", "U+0444", "U+0445", "U+0446",
       "U+0447", "U+0448", "U+0449", "U+044A", "U+044B", "U+044C", "U+044D",
       "U+044E", "U+044F", "U+0461", "U+0463", "U+0465", "U+0467", "U+0469",
       "U+046B", "U+046D", "U+046F", "U+0471", "U+0473", "U+0475", "U+0477",
       "U+0479", "U+047B", "U+047D", "U+047F", "U+0481", "U+048B", "U+048D",
       "U+048F", "U+0491", "U+0493", "U+0495", "U+0497", "U+0499", "U+049B",
       "U+049D", "U+049F", "U+04A1", "U+04A3", "U+04A5", "U+04A7", "U+04A9",
       "U+04AB", "U+04AD", "U+04AF", "U+04B1", "U+04B3", "U+04B5", "U+04B7",
       "U+04B9", "U+04BB", "U+04BD", "U+04BF", "U+04CF", "U+04C2", "U+04C4",
       "U+04C6", "U+04C8", "U+04CA", "U+04CC", "U+04CE", "U+04D1", "U+04D3",
       "U+04D5", "U+04D7", "U+04D9", "U+04DB", "U+04DD", "U+04DF", "U+04E1",
       "U+04E3", "U+04E5", "U+04E7", "U+04E9", "U+04EB", "U+04ED", "U+04EF",
       "U+04F1", "U+04F3", "U+04F5", "U+04F7", "U+04F9", "U+04FB", "U+04FD",
       "U+04FF", "U+0501", "U+0503", "U+0505", "U+0507", "U+0509", "U+050B",
       "U+050D", "U+050F", "U+0511", "U+0513", "U+0515", "U+0517", "U+0519",
       "U+051B", "U+051D", "U+051F", "U+0521", "U+0523", "U+0525", "U+0527",
       "U+0529", "U+052B", "U+052D", "U+052F", "U+0561", "U+0562", "U+0563",
       "U+0564", "U+0565", "U+0566", "U+0567", "U+0568", "U+0569", "U+056A",
       "U+056B", "U+056C", "U+056D", "U+056E", "U+056F", "U+0570", "U+0571",
       "U+0572", "U+0573", "U+0574", "U+0575", "U+0576", "U+0577", "U+0578",
       "U+0579", "U+057A", "U+057B", "U+057C", "U+057D", "U+057E", "U+057F",
       "U+0580", "U+0581", "U+0582", "U+0583", "U+0584", "U+0585", "U+0586",
       "U+2D00", "U+2D01", "U+2D02", "U+2D03", "U+2D04", "U+2D05", "U+2D06",
       "U+2D07", "U+2D08", "U+2D09", "U+2D0A", "U+2D0B", "U+2D0C", "U+2D0D",
       "U+2D0E", "U+2D0F", "U+2D10", "U+2D11", "U+2D12", "U+2D13", "U+2D14",
       "U+2D15", "U+2D16", "U+2D17", "U+2D18", "U+2D19", "U+2D1A", "U+2D1B",
       "U+2D1C", "U+2D1D", "U+2D1E", "U+2D1F", "U+2D20", "U+2D21", "U+2D22",
       "U+2D23", "U+2D24", "U+2D25", "U+2D27", "U+2D2D", "U+AB70", "U+AB71",
       "U+AB72", "U+AB73", "U+AB74", "U+AB75", "U+AB76", "U+AB77", "U+AB78",
       "U+AB79", "U+AB7A", "U+AB7B", "U+AB7C", "U+AB7D", "U+AB7E", "U+AB7F",
       "U+AB80", "U+AB81", "U+AB82", "U+AB83", "U+AB84", "U+AB85", "U+AB86",
       "U+AB87", "U+AB88", "U+AB89", "U+AB8A", "U+AB8B", "U+AB8C", "U+AB8D",
       "U+AB8E", "U+AB8F", "U+AB90", "U+AB91", "U+AB92", "U+AB93", "U+AB94",
       "U+AB95", "U+AB96", "U+AB97", "U+AB98", "U+AB99", "U+AB9A", "U+AB9B",
       "U+AB9C", "U+AB9D", "U+AB9E", "U+AB9F", "U+ABA0", "U+ABA1", "U+ABA2",
       "U+ABA3", "U+ABA4", "U+ABA5", "U+ABA6", "U+ABA7", "U+ABA8", "U+ABA9",
       "U+ABAA", "U+ABAB", "U+ABAC", "U+ABAD", "U+ABAE", "U+ABAF", "U+ABB0",
       "U+ABB1", "U+ABB2", "U+ABB3", "U+ABB4", "U+ABB5", "U+ABB6", "U+ABB7",
       "U+ABB8", "U+ABB9", "U+ABBA", "U+ABBB", "U+ABBC", "U+ABBD", "U+ABBE",
       "U+ABBF", "U+13F8", "U+13F9", "U+13FA", "U+13FB", "U+13FC", "U+13FD",
       "U+1C8A", "U+10D0", "U+10D1", "U+10D2", "U+10D3", "U+10D4", "U+10D5",
       "U+10D6", "U+10D7", "U+10D8", "U+10D9", "U+10DA", "U+10DB", "U+10DC",
       "U+10DD", "U+10DE", "U+10DF", "U+10E0", "U+10E1", "U+10E2", "U+10E3",
       "U+10E4", "U+10E5", "U+10E6", "U+10E7", "U+10E8", "U+10E9", "U+10EA",
       "U+10EB", "U+10EC", "U+10ED", "U+10EE", "U+10EF", "U+10F0", "U+10F1",
       "U+10F2", "U+10F3", "U+10F4", "U+10F5", "U+10F6", "U+10F7", "U+10F8",
       "U+10F9", "U+10FA", "U+10FD", "U+10FE", "U+10FF", "U+1E01", "U+1E03",
       "U+1E05", "U+1E07", "U+1E09", "U+1E0B", "U+1E0D", "U+1E0F", "U+1E11",
       "U+1E13", "U+1E15", "U+1E17", "U+1E19", "U+1E1B", "U+1E1D", "U+1E1F",
       "U+1E21", "U+1E23", "U+1E25", "U+1E27", "U+1E29", "U+1E2B", "U+1E2D",
       "U+1E2F", "U+1E31", "U+1E33", "U+1E35", "U+1E37", "U+1E39", "U+1E3B",
       "U+1E3D", "U+1E3F", "U+1E41", "U+1E43", "U+1E45", "U+1E47", "U+1E49",
       "U+1E4B", "U+1E4D", "U+1E4F", "U+1E51", "U+1E53", "U+1E55", "U+1E57",
       "U+1E59", "U+1E5B", "U+1E5D", "U+1E5F", "U+1E61", "U+1E63", "U+1E65",
       "U+1E67", "U+1E69", "U+1E6B", "U+1E6D", "U+1E6F", "U+1E71", "U+1E73",
       "U+1E75", "U+1E77", "U+1E79", "U+1E7B", "U+1E7D", "U+1E7F", "U+1E81",
       "U+1E83", "U+1E85", "U+1E87", "U+1E89", "U+1E8B", "U+1E8D", "U+1E8F",
       "U+1E91", "U+1E93", "U+1E95", "U+00DF", "U+1EA1", "U+1EA3", "U+1EA5",
       "U+1EA7", "U+1EA9", "U+1EAB", "U+1EAD", "U+1EAF", "U+1EB1", "U+1EB3",
       "U+1EB5", "U+1EB7", "U+1EB9", "U+1EBB", "U+1EBD", "U+1EBF", "U+1EC1",
       "U+1EC3", "U+1EC5", "U+1EC7", "U+1EC9", "U+1ECB", "U+1ECD", "U+1ECF",
       "U+1ED1", "U+1ED3", "U+1ED5", "U+1ED7", "U+1ED9", "U+1EDB", "U+1EDD",
       "U+1EDF", "U+1EE1", "U+1EE3", "U+1EE5", "U+1EE7", "U+1EE9", "U+1EEB",
       "U+1EED", "U+1EEF", "U+1EF1", "U+1EF3", "U+1EF5", "U+1EF7", "U+1EF9",
       "U+1EFB", "U+1EFD", "U+1EFF", "U+1F00", "U+1F01", "U+1F02", "U+1F03",
       "U+1F04", "U+1F05", "U+1F06", "U+1F07", "U+1F10", "U+1F11", "U+1F12",
       "U+1F13", "U+1F14", "U+1F15", "U+1F20", "U+1F21", "U+1F22", "U+1F23",
       "U+1F24", "U+1F25", "U+1F26", "U+1F27", "U+1F30", "U+1F31", "U+1F32",
       "U+1F33", "U+1F34", "U+1F35", "U+1F36", "U+1F37", "U+1F40", "U+1F41",
       "U+1F42", "U+1F43", "U+1F44", "U+1F45", "U+1F51", "U+1F53", "U+1F55",
       "U+1F57", "U+1F60", "U+1F61", "U+1F62", "U+1F63", "U+1F64", "U+1F65",
       "U+1F66", "U+1F67", "U+1F80", "U+1F81", "U+1F82", "U+1F83", "U+1F84",
       "U+1F85", "U+1F86", "U+1F87", "U+1F90", "U+1F91", "U+1F92", "U+1F93",
       "U+1F94", "U+1F95", "U+1F96", "U+1F97", "U+1FA0", "U+1FA1", "U+1FA2",
       "U+1FA3", "U+1FA4", "U+1FA5", "U+1FA6", "U+1FA7", "U+1FB0", "U+1FB1",
       "U+1F70", "U+1F71", "U+1FB3", "U+1F72", "U+1F73", "U+1F74", "U+1F75",
       "U+1FC3", "U+1FD0", "U+1FD1", "U+1F76", "U+1F77", "U+1FE0", "U+1FE1",
       "U+1F7A", "U+1F7B", "U+1FE5", "U+1F78", "U+1F79", "U+1F7C", "U+1F7D",
       "U+1FF3", "U+03C9", "k", "U+00E5", "U+214E", "U+2170", "U+2171", "U+2172",
       "U+2173", "U+2174", "U+2175", "U+2176", "U+2177", "U+2178", "U+2179",
       "U+217A", "U+217B", "U+217C", "U+217D", "U+217E", "U+217F", "U+2184",
       "U+24D0", "U+24D1", "U+24D2", "U+24D3", "U+24D4", "U+24D5", "U+24D6",
       "U+24D7", "U+24D8", "U+24D9", "U+24DA", "U+24DB", "U+24DC", "U+24DD",
       "U+24DE", "U+24DF", "U+24E0", "U+24E1", "U+24E2", "U+24E3", "U+24E4",
       "U+24E5", "U+24E6", "U+24E7", "U+24E8", "U+24E9", "U+2C30", "U+2C31",
       "U+2C32", "U+2C33", "U+2C34", "U+2C35", "U+2C36", "U+2C37", "U+2C38",
       "U+2C39", "U+2C3A", "U+2C3B", "U+2C3C", "U+2C3D", "U+2C3E", "U+2C3F",
       "U+2C40", "U+2C41", "U+2C42", "U+2C43", "U+2C44", "U+2C45", "U+2C46",
       "U+2C47", "U+2C48", "U+2C49", "U+2C4A", "U+2C4B", "U+2C4C", "U+2C4D",
       "U+2C4E", "U+2C4F", "U+2C50", "U+2C51", "U+2C52", "U+2C53", "U+2C54",
       "U+2C55", "U+2C56", "U+2C57", "U+2C58", "U+2C59", "U+2C5A", "U+2C5B",
       "U+2C5C", "U+2C5D", "U+2C5E", "U+2C5F", "U+2C61", "U+026B", "U+1D7D",
       "U+027D", "U+2C68", "U+2C6A", "U+2C6C", "U+0251", "U+0271", "U+0250",
       "U+0252", "U+2C73", "U+2C76", "U+023F", "U+0240", "U+2C81", "U+2C83",
       "U+2C85", "U+2C87", "U+2C89", "U+2C8B", "U+2C8D", "U+2C8F", "U+2C91",
       "U+2C93", "U+2C95", "U+2C97", "U+2C99", "U+2C9B", "U+2C9D", "U+2C9F",
       "U+2CA1", "U+2CA3", "U+2CA5", "U+2CA7", "U+2CA9", "U+2CAB", "U+2CAD",
       "U+2CAF", "U+2CB1", "U+2CB3", "U+2CB5", "U+2CB7", "U+2CB9", "U+2CBB",
       "U+2CBD", "U+2CBF", "U+2CC1", "U+2CC3", "U+2CC5", "U+2CC7", "U+2CC9",
       "U+2CCB", "U+2CCD", "U+2CCF", "U+2CD1", "U+2CD3", "U+2CD5", "U+2CD7",
       "U+2CD9", "U+2CDB", "U+2CDD", "U+2CDF", "U+2CE1", "U+2CE3", "U+2CEC",
       "U+2CEE", "U+2CF3", "U+A641", "U+A643", "U+A645", "U+A647", "U+A649",
       "U+A64B", "U+A64D", "U+A64F", "U+A651", "U+A653", "U+A655", "U+A657",
       "U+A659", "U+A65B", "U+A65D", "U+A65F", "U+A661", "U+A663", "U+A665",
       "U+A667", "U+A669", "U+A66B", "U+A66D", "U+A681", "U+A683", "U+A685",
       "U+A687", "U+A689", "U+A68B", "U+A68D", "U+A68F", "U+A691", "U+A693",
       "U+A695", "U+A697", "U+A699", "U+A69B", "U+A723", "U+A725", "U+A727",
       "U+A729", "U+A72B", "U+A72D", "U+A72F", "U+A733", "U+A735", "U+A737",
       "U+A739", "U+A73B", "U+A73D", "U+A73F", "U+A741", "U+A743", "U+A745",
       "U+A747", "U+A749", "U+A74B", "U+A74D", "U+A74F", "U+A751", "U+A753",
       "U+A755", "U+A757", "U+A759", "U+A75B", "U+A75D", "U+A75F", "U+A761",
       "U+A763", "U+A765", "U+A767", "U+A769", "U+A76B", "U+A76D", "U+A76F",
       "U+A77A", "U+A77C", "U+1D79", "U+A77F", "U+A781", "U+A783", "U+A785",
       "U+A787", "U+A78C", "U+0265", "U+A791", "U+A793", "U+A797", "U+A799",
       "U+A79B", "U+A79D", "U+A79F", "U+A7A1", "U+A7A3", "U+A7A5", "U+A7A7",
       "U+A7A9", "U+0266", "U+025C", "U+0261", "U+026C", "U+026A", "U+029E",
       "U+0287", "U+029D", "U+AB53", "U+A7B5", "U+A7B7", "U+A7B9", "U+A7BB",
       "U+A7BD", "U+A7BF", "U+A7C1", "U+A7C3", "U+A794", "U+0282", "U+1D8E",
       "U+A7C8", "U+A7CA", "U+0264", "U+A7CD", "U+A7CF", "U+A7D1", "U+A7D3",
       "U+A7D5", "U+A7D7", "U+A7D9", "U+A7DB", "U+019B", "U+A7F6", "U+FF41",
       "U+FF42", "U+FF43", "U+FF44", "U+FF45", "U+FF46", "U+FF47", "U+FF48",
       "U+FF49", "U+FF4A", "U+FF4B", "U+FF4C", "U+FF4D", "U+FF4E", "U+FF4F",
       "U+FF50", "U+FF51", "U+FF52", "U+FF53", "U+FF54", "U+FF55", "U+FF56",
       "U+FF57", "U+FF58", "U+FF59", "U+FF5A" >>

\* the surrogate pairs that toLowerCase replaces, and their replacements,
\* position by position
UpperPairs ==
    << <<"U+D801", "U+DC00">>, <<"U+D801", "U+DC01">>, <<"U+D801", "U+DC02">>,
       <<"U+D801", "U+DC03">>, <<"U+D801", "U+DC04">>, <<"U+D801", "U+DC05">>,
       <<"U+D801", "U+DC06">>, <<"U+D801", "U+DC07">>, <<"U+D801", "U+DC08">>,
       <<"U+D801", "U+DC09">>, <<"U+D801", "U+DC0A">>, <<"U+D801", "U+DC0B">>,
       <<"U+D801", "U+DC0C">>, <<"U+D801", "U+DC0D">>, <<"U+D801", "U+DC0E">>,
       <<"U+D801", "U+DC0F">>, <<"U+D801", "U+DC10">>, <<"U+D801", "U+DC11">>,
       <<"U+D801", "U+DC12">>, <<"U+D801", "U+DC13">>, <<"U+D801", "U+DC14">>,
       <<"U+D801", "U+DC15">>, <<"U+D801", "U+DC16">>, <<"U+D801", "U+DC17">>,
       <<"U+D801", "U+DC18">>, <<"U+D801", "U+DC19">>, <<"U+D801", "U+DC1A">>,
       <<"U+D801", "U+DC1B">>, <<"U+D801", "U+DC1C">>, <<"U+D801", "U+DC1D">>,
       <<"U+D801", "U+DC1E">>, <<"U+D801", "U+DC1F">>, <<"U+D801", "U+DC20">>,
       <<"U+D801", "U+DC21">>, <<"U+D801", "U+DC22">>, <<"U+D801", "U+DC23">>,
       <<"U+D801", "U+DC24">>, <<"U+D801", "U+DC25">>, <<"U+D801", "U+DC26">>,
       <<"U+D801", "U+DC27">>, <<"U+D801", "U+DCB0">>, <<"U+D801", "U+DCB1">>,
       <<"U+D801", "U+DCB2">>, <<"U+D801", "U+DCB3">>, <<"U+D801", "U+DCB4">>,
       <<"U+D801", "U+DCB5">>, <<"U+D801", "U+DCB6">>, <<"U+D801", "U+DCB7">>,
       <<"U+D801", "U+DCB8">>, <<"U+D801", "U+DCB9">>, <<"U+D801", "U+DCBA">>,
       <<"U+D801", "U+DCBB">>, <<"U+D801", "U+DCBC">>, <<"U+D801", "U+DCBD">>,
       <<"U+D801", "U+DCBE">>, <<"U+D801", "U+DCBF">>, <<"U+D801", "U+DCC0">>,
       <<"U+D801", "U+DCC1">>, <<"U+D801", "U+DCC2">>, <<"U+D801", "U+DCC3">>,
       <<"U+D801", "U+DCC4">>, <<"U+D801", "U+DCC5">>, <<"U+D801", "U+DCC6">>,
       <<"U+D801", "U+DCC7">>, <<"U+D801", "U+DCC8">>, <<"U+D801", "U+DCC9">>,
       <<"U+D801", "U+DCCA">>, <<"U+D801", "U+DCCB">>, <<"U+D801", "U+DCCC">>,
       <<"U+D801", "U+DCCD">>, <<"U+D801", "U+DCCE">>, <<"U+D801", "U+DCCF">>,
       <<"U+D801", "U+DCD0">>, <<"U+D801", "U+DCD1">>, <<"U+D801", "U+DCD2">>,
       <<"U+D801", "U+DCD3">>, <<"U+D801", "U+DD70">>, <<"U+D801", "U+DD71">>,
       <<"U+D801", "U+DD72">>, <<"U+D801", "U+DD73">>, <<"U+D801", "U+DD74">>,
       <<"U+D801", "U+DD75">>, <<"U+D801", "U+DD76">>, <<"U+D801", "U+DD77">>,
       <<"U+D801", "U+DD78">>, <<"U+D801", "U+DD79">>, <<"U+D801", "U+DD7A">>,
       <<"U+D801", "U+DD7C">>, <<"U+D801", "U+DD7D">>, <<"U+D801", "U+DD7E">>,
       <<"U+D801", "U+DD7F">>, <<"U+D801", "U+DD80">>, <<"U+D801", "U+DD81">>,
       <<"U+D801", "U+DD82">>, <<"U+D801", "U+DD83">>, <<"U+D801", "U+DD84">>,
       <<"U+D801", "U+DD85">>, <<"U+D801", "U+DD86">>, <<"U+D801", "U+DD87">>,
       <<"U+D801", "U+DD88">>, <<"U+D801", "U+DD89">>, <<"U+D801", "U+DD8A">>,
       <<"U+D801", "U+DD8C">>, <<"U+D801", "U+DD8D">>, <<"U+D801", "U+DD8E">>,
       <<"U+D801", "U+DD8F">>, <<"U+D801", "U+DD90">>, <<"U+D801", "U+DD91">>,
       <<"U+D801", "U+DD92">>, <<"U+D801", "U+DD94">>, <<"U+D801", "U+DD95">>,
       <<"U+D803", "U+DC80">>, <<"U+D803", "U+DC81">>, <<"U+D803", "U+DC82">>,
       <<"U+D803", "U+DC83">>, <<"U+D803", "U+DC84">>, <<"U+D803", "U+DC85">>,
       <<"U+D803", "U+DC86">>, <<"U+D803", "U+DC87">>, <<"U+D803", "U+DC88">>,
       <<"U+D803", "U+DC89">>, <<"U+D803", "U+DC8A">>, <<"U+D803", "U+DC8B">>,
       <<"U+D803", "U+DC8C">>, <<"U+D803", "U+DC8D">>, <<"U+D803", "U+DC8E">>,
       <<"U+D803", "U+DC8F">>, <<"U+D803", "U+DC90">>, <<"U+D803", "U+DC91">>,
       <<"U+D803", "U+DC92">>, <<"U+D803", "U+DC93">>, <<"U+D803", "U+DC94">>,
       <<"U+D803", "U+DC95">>, <<"U+D803", "U+DC96">>, <<"U+D803", "U+DC97">>,
       <<"U+D803", "U+DC98">>, <<"U+D803", "U+DC99">>, <<"U+D803", "U+DC9A">>,
       <<"U+D803", "U+DC9B">>, <<"U+D803", "U+DC9C">>, <<"U+D803", "U+DC9D">>,
       <<"U+D803", "U+DC9E">>, <<"U+D803", "U+DC9F">>, <<"U+D803", "U+DCA0">>,
       <<"U+D803", "U+DCA1">>, <<"U+D803", "U+DCA2">>, <<"U+D803", "U+DCA3">>,
       <<"U+D803", "U+DCA4">>, <<"U+D803", "U+DCA5">>, <<"U+D803", "U+DCA6">>,
       <<"U+D803", "U+DCA7">>, <<"U+D803", "U+DCA8">>, <<"U+D803", "U+DCA9">>,
       <<"U+D803", "U+DCAA">>, <<"U+D803", "U+DCAB">>, <<"U+D803", "U+DCAC">>,
       <<"U+D803", "U+DCAD">>, <<"U+D803", "U+DCAE">>, <<"U+D803", "U+DCAF">>,
       <<"U+D803", "U+DCB0">>, <<"U+D803", "U+DCB1">>, <<"U+D803", "U+DCB2">>,
       <<"U+D803", "U+DD50">>, <<"U+D803", "U+DD51">>, <<"U+D803", "U+DD52">>,
       <<"U+D803", "U+DD53">>, <<"U+D803", "U+DD54">>, <<"U+D803", "U+DD55">>,
       <<"U+D803", "U+DD56">>, <<"U+D803", "U+DD57">>, <<"U+D803", "U+DD58">>,
       <<"U+D803", "U+DD59">>, <<"U+D803", "U+DD5A">>, <<"U+D803", "U+DD5B">>,
       <<"U+D803", "U+DD5C">>, <<"U+D803", "U+DD5D">>, <<"U+D803", "U+DD5E">>,
       <<"U+D803", "U+DD5F">>, <<"U+D803", "U+DD60">>, <<"U+D803", "U+DD61">>,
       <<"U+D803", "U+DD62">>, <<"U+D803", "U+DD63">>, <<"U+D803", "U+DD64">>,
       <<"U+D803", "U+DD65">>, <<"U+D806", "U+DCA0">>, <<"U+D806", "U+DCA1">>,
       <<"U+D806", "U+DCA2">>, <<"U+D806", "U+DCA3">>, <<"U+D806", "U+DCA4">>,
       <<"U+D806", "U+DCA5">>, <<"U+D806", "U+DCA6">>, <<"U+D806", "U+DCA7">>,
       <<"U+D806", "U+DCA8">>, <<"U+D806", "U+DCA9">>, <<"U+D806", "U+DCAA">>,
       <<"U+D806", "U+DCAB">>, <<"U+D806", "U+DCAC">>, <<"U+D806", "U+DCAD">>,
       <<"U+D806", "U+DCAE">>, <<"U+D806", "U+DCAF">>, <<"U+D806", "U+DCB0">>,
       <<"U+D806", "U+DCB1">>, <<"U+D806", "U+DCB2">>, <<"U+D806", "U+DCB3">>,
       <<"U+D806", "U+DCB4">>, <<"U+D806", "U+DCB5">>, <<"U+D806", "U+DCB6">>,
       <<"U+D806", "U+DCB7">>, <<"U+D806", "U+DCB8">>, <<"U+D806", "U+DCB9">>,
       <<"U+D806", "U+DCBA">>, <<"U+D806", "U+DCBB">>, <<"U+D806", "U+DCBC">>,
       <<"U+D806", "U+DCBD">>, <<"U+D806", "U+DCBE">>, <<"U+D806", "U+DCBF">>,
       <<"U+D81B", "U+DE40">>, <<"U+D81B", "U+DE41">>, <<"U+D81B", "U+DE42">>,
       <<"U+D81B", "U+DE43">>, <<"U+D81B", "U+DE44">>, <<"U+D81B", "U+DE45">>,
       <<"U+D81B", "U+DE46">>, <<"U+D81B", "U+DE47">>, <<"U+D81B", "U+DE48">>,
       <<"U+D81B", "U+DE49">>, <<"U+D81B", "U+DE4A">>, <<"U+D81B", "U+DE4B">>,
       <<"U+D81B", "U+DE4C">>, <<"U+D81B", "U+DE4D">>, <<"U+D81B", "U+DE4E">>,
       <<"U+D81B", "U+DE4F">>, <<"U+D81B", "U+DE50">>, <<"U+D81B", "U+DE51">>,
       <<"U+D81B", "U+DE52">>, <<"U+D81B", "U+DE53">>, <<"U+D81B", "U+DE54">>,
       <<"U+D81B", "U+DE55">>, <<"U+D81B", "U+DE56">>, <<"U+D81B", "U+DE57">>,
       <<"U+D81B", "U+DE58">>, <<"U+D81B", "U+DE59">>, <<"U+D81B", "U+DE5A">>,
       <<"U+D81B", "U+DE5B">>, <<"U+D81B", "U+DE5C">>, <<"U+D81B", "U+DE5D">>,
       <<"U+D81B", "U+DE5E">>, <<"U+D81B", "U+DE5F">>, <<"U+D81B", "U+DEA0">>,
       <<"U+D81B", "U+DEA1">>, <<"U+D81B", "U+DEA2">>, <<"U+D81B", "U+DEA3">>,
       <<"U+D81B", "U+DEA4">>, <<"U+D81B", "U+DEA5">>, <<"U+D81B", "U+DEA6">>,
       <<"U+D81B", "U+DEA7">>, <<"U+D81B", "U+DEA8">>, <<"U+D81B", "U+DEA9">>,
       <<"U+D81B", "U+DEAA">>, <<"U+D81B", "U+DEAB">>, <<"U+D81B", "U+DEAC">>,
       <<"U+D81B", "U+DEAD">>, <<"U+D81B", "U+DEAE">>, <<"U+D81B", "U+DEAF">>,
       <<"U+D81B", "U+DEB0">>, <<"U+D81B", "U+DEB1">>, <<"U+D81B", "U+DEB2">>,
       <<"U+D81B", "U+DEB3">>, <<"U+D81B", "U+DEB4">>, <<"U+D81B", "U+DEB5">>,
       <<"U+D81B", "U+DEB6">>, <<"U+D81B", "U+DEB7">>, <<"U+D81B", "U+DEB8">>,
       <<"U+D83A", "U+DD00">>, <<"U+D83A", "U+DD01">>, <<"U+D83A", "U+DD02">>,
       <<"U+D83A", "U+DD03">>, <<"U+D83A", "U+DD04">>, <<"U+D83A", "U+DD05">>,
       <<"U+D83A", "U+DD06">>, <<"U+D83A", "U+DD07">>, <<"U+D83A", "U+DD08">>,
       <<"U+D83A", "U+DD09">>, <<"U+D83A", "U+DD0A">>, <<"U+D83A", "U+DD0B">>,
       <<"U+D83A", "U+DD0C">>, <<"U+D83A", "U+DD0D">>, <<"U+D83A", "U+DD0E">>,
       <<"U+D83A", "U+DD0F">>, <<"U+D83A", "U+DD10">>, <<"U+D83A", "U+DD11">>,
       <<"U+D83A", "U+DD12">>, <<"U+D83A", "U+DD13">>, <<"U+D83A", "U+DD14">>,
       <<"U+D83A", "U+DD15">>, <<"U+D83A", "U+DD16">>, <<"U+D83A", "U+DD17">>,
       <<"U+D83A", "U+DD18">>, <<"U+D83A", "U+DD19">>, <<"U+D83A", "U+DD1A">>,
       <<"U+D83A", "U+DD1B">>, <<"U+D83A", "U+DD1C">>, <<"U+D83A", "U+DD1D">>,
       <<"U+D83A", "U+DD1E">>, <<"U+D83A", "U+DD1F">>, <<"U+D83A", "U+DD20">>,
       <<"U+D83A", "U+DD21">> >>

LowerPairs ==
    << <<"U+D801", "U+DC28">>, <<"U+D801", "U+DC29">>, <<"U+D801", "U+DC2A">>,
       <<"U+D801", "U+DC2B">>, <<"U+D801", "U+DC2C">>, <<"U+D801", "U+DC2D">>,
       <<"U+D801", "U+DC2E">>, <<"U+D801", "U+DC2F">>, <<"U+D801", "U+DC30">>,
       <<"U+D801", "U+DC31">>, <<"U+D801", "U+DC32">>, <<"U+D801", "U+DC33">>,
       <<"U+D801", "U+DC34">>, <<"U+D801", "U+DC35">>, <<"U+D801", "U+DC36">>,
       <<"U+D801", "U+DC37">>, <<"U+D801", "U+DC38">>, <<"U+D801", "U+DC39">>,
       <<"U+D801", "U+DC3A">>, <<"U+D801", "U+DC3B">>, <<"U+D801", "U+DC3C">>,
       <<"U+D801", "U+DC3D">>, <<"U+D801", "U+DC3E">>, <<"U+D801", "U+DC3F">>,
       <<"U+D801", "U+DC40">>, <<"U+D801", "U+DC41">>, <<"U+D801", "U+DC42">>,
       <<"U+D801", "U+DC43">>, <<"U+D801", "U+DC44">>, <<"U+D801", "U+DC45">>,
       <<"U+D801", "U+DC46">>, <<"U+D801", "U+DC47">>, <<"U+D801", "U+DC48">>,
       <<"U+D801", "U+DC49">>, <<"U+D801", "U+DC4A">>, <<"U+D801", "U+DC4B">>,
       <<"U+D801", "U+DC4C">>, <<"U+D801", "U+DC4D">>, <<"U+D801", "U+DC4E">>,
       <<"U+D801", "U+DC4F">>, <<"U+D801", "U+DCD8">>, <<"U+D801", "U+DCD9">>,
       <<"U+D801", "U+DCDA">>, <<"U+D801", "U+DCDB">>, <<"U+D801", "U+DCDC">>,
       <<"U+D801", "U+DCDD">>, <<"U+D801", "U+DCDE">>, <<"U+D801", "U+DCDF">>,
       <<"U+D801", "U+DCE0">>, <<"U+D801", "U+DCE1">>, <<"U+D801", "U+DCE2">>,
       <<"U+D801", "U+DCE3">>, <<"U+D801", "U+DCE4">>, <<"U+D801", "U+DCE5">>,
       <<"U+D801", "U+DCE6">>, <<"U+D801", "U+DCE7">>, <<"U+D801", "U+DCE8">>,
       <<"U+D801", "U+DCE9">>, <<"U+D801", "U+DCEA">>, <<"U+D801", "U+DCEB">>,
       <<"U+D801", "U+DCEC">>, <<"U+D801", "U+DCED">>, <<"U+D801", "U+DCEE">>,
       <<"U+D801", "U+DCEF">>, <<"U+D801", "U+DCF0">>, <<"U+D801", "U+DCF1">>,
       <<"U+D801", "U+DCF2">>, <<"U+D801", "U+DCF3">>, <<"U+D801", "U+DCF4">>,
       <<"U+D801", "U+DCF5">>, <<"U+D801", "U+DCF6">>, <<"U+D801", "U+DCF7">>,
       <<"U+D801", "U+DCF8">>, <<"U+D801", "U+DCF9">>, <<"U+D801", "U+DCFA">>,
       <<"U+D801", "U+DCFB">>, <<"U+D801", "U+DD97">>, <<"U+D801", "U+DD98">>,
       <<"U+D801", "U+DD99">>, <<"U+D801", "U+DD9A">>, <<"U+D801", "U+DD9B">>,
       <<"U+D801", "U+DD9C">>, <<"U+D801", "U+DD9D">>, <<"U+D801", "U+DD9E">>,
       <<"U+D801", "U+DD9F">>, <<"U+D801", "U+DDA0">>, <<"U+D801", "U+DDA1">>,
       <<"U+D801", "U+DDA3">>, <<"U+D801", "U+DDA4">>, <<"U+D801", "U+DDA5">>,
       <<"U+D801", "U+DDA6">>, <<"U+D801", "U+DDA7">>, <<"U+D801", "U+DDA8">>,
       <<"U+D801", "U+DDA9">>, <<"U+D801", "U+DDAA">>, <<"U+D801", "U+DDAB">>,
       <<"U+D801", "U+DDAC">>, <<"U+D801", "U+DDAD">>, <<"U+D801", "U+DDAE">>,
       <<"U+D801", "U+DDAF">>, <<"U+D801", "U+DDB0">>, <<"U+D801", "U+DDB1">>,
       <<"U+D801", "U+DDB3">>, <<"U+D801", "U+DDB4">>, <<"U+D801", "U+DDB5">>,
       <<"U+D801", "U+DDB6">>, <<"U+D801", "U+DDB7">>, <<"U+D801", "U+DDB8">>,
       <<"U+D801", "U+DDB9">>, <<"U+D801", "U+DDBB">>, <<"U+D801", "U+DDBC">>,
       <<"U+D803", "U+DCC0">>, <<"U+D803", "U+DCC1">>, <<"U+D803", "U+DCC2">>,
       <<"U+D803", "U+DCC3">>, <<"U+D803", "U+DCC4">>, <<"U+D803", "U+DCC5">>,
       <<"U+D803", "U+DCC6">>, <<"U+D803", "U+DCC7">>, <<"U+D803", "U+DCC8">>,
       <<"U+D803", "U+DCC9">>, <<"U+D803", "U+DCCA">>, <<"U+D803", "U+DCCB">>,
       <<"U+D803", "U+DCCC">>, <<"U+D803", "U+DCCD">>, <<"U+D803", "U+DCCE">>,
       <<"U+D803", "U+DCCF">>, <<"U+D803", "U+DCD0">>, <<"U+D803", "U+DCD1">>,
       <<"U+D803", "U+DCD2">>, <<"U+D803", "U+DCD3">>, <<"U+D803", "U+DCD4">>,
       <<"U+D803", "U+DCD5">>, <<"U+D803", "U+DCD6">>, <<"U+D803", "U+DCD7">>,
       <<"U+D803", "U+DCD8">>, <<"U+D803", "U+DCD9">>, <<"U+D803", "U+DCDA">>,
       <<"U+D803", "U+DCDB">>, <<"U+D803", "U+DCDC">>, <<"U+D803", "U+DCDD">>,
       <<"U+D803", "U+DCDE">>, <<"U+D803", "U+DCDF">>, <<"U+D803", "U+DCE0">>,
       <<"U+D803", "U+DCE1">>, <<"U+D803", "U+DCE2">>, <<"U+D803", "U+DCE3">>,
       <<"U+D803", "U+DCE4">>, <<"U+D803", "U+DCE5">>, <<"U+D803", "U+DCE6">>,
       <<"U+D803", "U+DCE7">>, <<"U+D803", "U+DCE8">>, <<"U+D803", "U+DCE9">>,
       <<"U+D803", "U+DCEA">>, <<"U+D803", "U+DCEB">>, <<"U+D803", "U+DCEC">>,
       <<"U+D803", "U+DCED">>, <<"U+D803", "U+DCEE">>, <<"U+D803", "U+DCEF">>,
       <<"U+D803", "U+DCF0">>, <<"U+D803", "U+DCF1">>, <<"U+D803", "U+DCF2">>,
       <<"U+D803", "U+DD70">>, <<"U+D803", "U+DD71">>, <<"U+D803", "U+DD72">>,
       <<"U+D803", "U+DD73">>, <<"U+D803", "U+DD74">>, <<"U+D803", "U+DD75">>,
       <<"U+D803", "U+DD76">>, <<"U+D803", "U+DD77">>, <<"U+D803", "U+DD78">>,
       <<"U+D803", "U+DD79">>, <<"U+D803", "U+DD7A">>, <<"U+D803", "U+DD7B">>,
       <<"U+D803", "U+DD7C">>, <<"U+D803", "U+DD7D">>, <<"U+D803", "U+DD7E">>,
       <<"U+D803", "U+DD7F">>, <<"U+D803", "U+DD80">>, <<"U+D803", "U+DD81">>,
       <<"U+D803", "U+DD82">>, <<"U+D803", "U+DD83">>, <<"U+D803", "U+DD84">>,
       <<"U+D803", "U+DD85">>, <<"U+D806", "U+DCC0">>, <<"U+D806", "U+DCC1">>,
       <<"U+D806", "U+DCC2">>, <<"U+D806", "U+DCC3">>, <<"U+D806", "U+DCC4">>,
       <<"U+D806", "U+DCC5">>, <<"U+D806", "U+DCC6">>, <<"U+D806", "U+DCC7">>,
       <<"U+D806", "U+DCC8">>, <<"U+D806", "U+DCC9">>, <<"U+D806", "U+DCCA">>,
       <<"U+D806", "U+DCCB">>, <<"U+D806", "U+DCCC">>, <<"U+D806", "U+DCCD">>,
       <<"U+D806", "U+DCCE">>, <<"U+D806", "U+DCCF">>, <<"U+D806", "U+DCD0">>,
       <<"U+D806", "U+DCD1">>, <<"U+D806", "U+DCD2">>, <<"U+D806", "U+DCD3">>,
       <<"U+D806", "U+DCD4">>, <<"U+D806", "U+DCD5">>, <<"U+D806", "U+DCD6">>,
       <<"U+D806", "U+DCD7">>, <<"U+D806", "U+DCD8">>, <<"U+D806", "U+DCD9">>,
       <<"U+D806", "U+DCDA">>, <<"U+D806", "U+DCDB">>, <<"U+D806", "U+DCDC">>,
       <<"U+D806", "U+DCDD">>, <<"U+D806", "U+DCDE">>, <<"U+D806", "U+DCDF">>,
       <<"U+D81B", "U+DE60">>, <<"U+D81B", "U+DE61">>, <<"U+D81B", "U+DE62">>,
       <<"U+D81B", "U+DE63">>, <<"U+D81B", "U+DE64">>, <<"U+D81B", "U+DE65">>,
       <<"U+D81B", "U+DE66">>, <<"U+D81B", "U+DE67">>, <<"U+D81B", "U+DE68">>,
       <<"U+D81B", "U+DE69">>, <<"U+D81B", "U+DE6A">>, <<"U+D81B", "U+DE6B">>,
       <<"U+D81B", "U+DE6C">>, <<"U+D81B", "U+DE6D">>, <<"U+D81B", "U+DE6E">>,
       <<"U+D81B", "U+DE6F">>, <<"U+D81B", "U+DE70">>, <<"U+D81B", "U+DE71">>,
       <<"U+D81B", "U+DE72">>, <<"U+D81B", "U+DE73">>, <<"U+D81B", "U+DE74">>,
       <<"U+D81B", "U+DE75">>, <<"U+D81B", "U+DE76">>, <<"U+D81B", "U+DE77">>,
       <<"U+D81B", "U+DE78">>, <<"U+D81B", "U+DE79">>, <<"U+D81B", "U+DE7A">>,
       <<"U+D81B", "U+DE7B">>, <<"U+D81B", "U+DE7C">>, <<"U+D81B", "U+DE7D">>,
       <<"U+D81B", "U+DE7E">>, <<"U+D81B", "U+DE7F">>, <<"U+D81B", "U+DEBB">>,
       <<"U+D81B", "U+DEBC">>, <<"U+D81B", "U+DEBD">>, <<"U+D81B", "U+DEBE">>,
       <<"U+D81B", "U+DEBF">>, <<"U+D81B", "U+DEC0">>, <<"U+D81B", "U+DEC1">>,
       <<"U+D81B", "U+DEC2">>, <<"U+D81B", "U+DEC3">>, <<"U+D81B", "U+DEC4">>,
       <<"U+D81B", "U+DEC5">>, <<"U+D81B", "U+DEC6">>, <<"U+D81B", "U+DEC7">>,
       <<"U+D81B", "U+DEC8">>, <<"U+D81B", "U+DEC9">>, <<"U+D81B", "U+DECA">>,
       <<"U+D81B", "U+DECB">>, <<"U+D81B", "U+DECC">>, <<"U+D81B", "U+DECD">>,
       <<"U+D81B", "U+DECE">>, <<"U+D81B", "U+DECF">>, <<"U+D81B", "U+DED0">>,
       <<"U+D81B", "U+DED1">>, <<"U+D81B", "U+DED2">>, <<"U+D81B", "U+DED3">>,
       <<"U+D83A", "U+DD22">>, <<"U+D83A", "U+DD23">>, <<"U+D83A", "U+DD24">>,
       <<"U+D83A", "U+DD25">>, <<"U+D83A", "U+DD26">>, <<"U+D83A", "U+DD27">>,
       <<"U+D83A", "U+DD28">>, <<"U+D83A", "U+DD29">>, <<"U+D83A", "U+DD2A">>,
       <<"U+D83A", "U+DD2B">>, <<"U+D83A", "U+DD2C">>, <<"U+D83A", "U+DD2D">>,
       <<"U+D83A", "U+DD2E">>, <<"U+D83A", "U+DD2F">>, <<"U+D83A", "U+DD30">>,
       <<"U+D83A", "U+DD31">>, <<"U+D83A", "U+DD32">>, <<"U+D83A", "U+DD33">>,
       <<"U+D83A", "U+DD34">>, <<"U+D83A", "U+DD35">>, <<"U+D83A", "U+DD36">>,
       <<"U+D83A", "U+DD37">>, <<"U+D83A", "U+DD38">>, <<"U+D83A", "U+DD39">>,
       <<"U+D83A", "U+DD3A">>, <<"U+D83A", "U+DD3B">>, <<"U+D83A", "U+DD3C">>,
       <<"U+D83A", "U+DD3D">>, <<"U+D83A", "U+DD3E">>, <<"U+D83A", "U+DD3F">>,
       <<"U+D83A", "U+DD40">>, <<"U+D83A", "U+DD41">>, <<"U+D83A", "U+DD42">>,
       <<"U+D83A", "U+DD43">> >>

\* the code units with the property Cased and without Case_Ignorable
CasedUnits ==
    { "A", "B", "C", "D", "E", "F", "G", "H", "I", "J", "K", "L", "M", "N", "O",
       "P", "Q", "R", "S", "T", "U", "V", "W", "X", "Y", "Z", "a", "b", "c", "d",
       "e", "f", "g", "h", "i", "j", "k", "l", "m", "n", "o", "p", "q", "r", "s",
       "t", "u", "v", "w", "x", "y", "z", "U+00AA", "U+00B5", "U+00BA", "U+00C0",
       "U+00C1", "U+00C2", "U+00C3", "U+00C4", "U+00C5", "U+00C6", "U+00C7",
       "U+00C8", "U+00C9", "U+00CA", "U+00CB", "U+00CC", "U+00CD", "U+00CE",
       "U+00CF", "U+00D0", "U+00D1", "U+00D2", "U+00D3", "U+00D4", "U+00D5",
       "U+00D6", "U+00D8", "U+00D9", "U+00DA", "U+00DB", "U+00DC", "U+00DD",
       "U+00DE", "U+00DF", "U+00E0", "U+00E1", "U+00E2", "U+00E3", "U+00E4",
       "U+00E5", "U+00E6", "U+00E7", "U+00E8", "U+00E9", "U+00EA", "U+00EB",
       "U+00EC", "U+00ED", "U+00EE", "U+00EF", "U+00F0", "U+00F1", "U+00F2",
       "U+00F3", "U+00F4", "U+00F5", "U+00F6", "U+00F8", "U+00F9", "U+00FA",
       "U+00FB", "U+00FC", "U+00FD", "U+00FE", "U+00FF", "U+0100", "U+0101",
       "U+0102", "U+0103", "U+0104", "U+0105", "U+0106", "U+0107", "U+0108",
       "U+0109", "U+010A", "U+010B", "U+010C", "U+010D", "U+010E", "U+010F",
       "U+0110", "U+0111", "U+0112", "U+0113", "U+0114", "U+0115", "U+0116",
       "U+0117", "U+0118", "U+0119", "U+011A", "U+011B", "U+011C", "U+011D",
       "U+011E", "U+011F", "U+0120", "U+0121", "U+0122", "U+0123", "U+0124",
       "U+0125", "U+0126", "U+0127", "U+0128", "U+0129", "U+012A", "U+012B",
       "U+012C", "U+012D", "U+012E", "U+012F", "U+0130", "U+0131", "U+0132",
       "U+0133", "U+0134", "U+0135", "U+0136", "U+0137", "U+0138", "U+0139",
       "U+013A", "U+013B", "U+013C", "U+013D", "U+013E", "U+013F", "U+0140",
       "U+0141", "U+0142", "U+0143", "U+0144", "U+0145", "U+0146", "U+0147",
       "U+0148", "U+0149", "U+014A", "U+014B", "U+014C", "U+014D", "U+014E",
       "U+014F", "U+0150", "U+0151", "U+0152", "U+0153", "U+0154", "U+0155",
       "U+0156", "U+0157", "U+0158", "U+0159", "U+015A", "U+015B", "U+015C",
       "U+015D", "U+015E", "U+015F", "U+0160", "U+0161", "U+0162", "U+0163",
       "U+0164", "U+0165", "U+0166", "U+0167", "U+0168", "U+0169", "U+016A",
       "U+016B", "U+016C", "U+016D", "U+016E", "U+016F", "U+0170", "U+0171",
       "U+0172", "U+0173", "U+0174", "U+0175", "U+0176", "U+0177", "U+0178",
       "U+0179", "U+017A", "U+017B", "U+017C", "U+017D", "U+017E", "U+017F",
       "U+0180", "U+0181", "U+0182", "U+0183", "U+0184", "U+0185", "U+0186",
       "U+0187", "U+0188", "U+0189", "U+018A", "U+018B", "U+018C", "U+018D",
       "U+018E", "U+018F", "U+0190", "U+0191", "U+0192", "U+0193", "U+0194",
       "U+0195", "U+0196", "U+0197", "U+0198", "U+0199", "U+019A", "U+019B",
       "U+019C", "U+019D", "U+019E", "U+019F", "U+01A0", "U+01A1", "U+01A2",
       "U+01A3", "U+01A4", "U+01A5", "U+01A6", "U+01A7", "U+01A8", "U+01A9",
       "U+01AA", "U+01AB", "U+01AC", "U+01AD", "U+01AE", "U+01AF", "U+01B0",
       "U+01B1", "U+01B2", "U+01B3", "U+01B4", "U+01B5", "U+01B6", "U+01B7",
       "U+01B8", "U+01B9", "U+01BA", "U+01BC", "U+01BD", "U+01BE", "U+01BF",
       "U+01C4", "U+01C5", "U+01C6", "U+01C7", "U+01C8", "U+01C9", "U+01CA",
       "U+01CB", "U+01CC", "U+01CD", "U+01CE", "U+01CF", "U+01D0", "U+01D1",
       "U+01D2", "U+01D3", "U+01D4", "U+01D5", "U+01D6", "U+01D7", "U+01D8",
       "U+01D9", "U+01DA", "U+01DB", "U+01DC", "U+01DD", "U+01DE", "U+01DF",
       "U+01E0", "U+01E1", "U+01E2", "U+01E3", "U+01E4", "U+01E5", "U+01E6",
       "U+01E7", "U+01E8", "U+01E9", "U+01EA", "U+01EB", "U+01EC", "U+01ED",
       "U+01EE", "U+01EF", "U+01F0", "U+01F1", "U+01F2", "U+01F3", "U+01F4",
       "U+01F5", "U+01F6", "U+01F7", "U+01F8", "U+01F9", "U+01FA", "U+01FB",
       "U+01FC", "U+01FD", "U+01FE", "U+01FF", "U+0200", "U+0201", "U+0202",
       "U+0203", "U+0204", "U+0205", "U+0206", "U+0207", "U+0208", "U+0209",
       "U+020A", "U+020B", "U+020C", "U+020D", "U+020E", "U+020F", "U+0210",
       "U+0211", "U+0212", "U+0213", "U+0214", "U+0215", "U+0216", "U+0217",
       "U+0218", "U+0219", "U+021A", "U+021B", "U+021C", "U+021D", "U+021E",
       "U+021F", "U+0220", "U+0221", "U+0222", "U+0223", "U+0224", "U+0225",
       "U+0226", "U+0227", "U+0228", "U+0229", "U+022A", "U+022B", "U+022C",
       "U+022D", "U+022E", "U+022F", "U+0230", "U+0231", "U+0232", "U+0233",
       "U+0234", "U+0235", "U+0236", "U+0237", "U+0238", "U+0239", "U+023A",
       "U+023B", "U+023C", "U+023D", "U+023E", "U+023F", "U+0240", "U+0241",
       "U+0242", "U+0243", "U+0244", "U+0245", "U+0246", "U+0247", "U+0248",
       "U+0249", "U+024A", "U+024B", "U+024C", "U+024D", "U+024E", "U+024F",
       "U+0250", "U+0251", "U+0252", "U+0253", "U+0254", "U+0255", "U+0256",
       "U+0257", "U+0258", "U+0259", "U+025A", "U+025B", "U+025C", "U+025D",
       "U+025E", "U+025F", "U+0260", "U+0261", "U+0262", "U+0263", "U+0264",
       "U+0265", "U+0266", "U+0267", "U+0268", "U+0269", "U+026A", "U+026B",
       "U+026C", "U+026D", "U+026E", "U+026F", "U+0270", "U+0271", "U+0272",
       "U+0273", "U+0274", "U+0275", "U+0276", "U+0277", "U+0278", "U+0279",
       "U+027A", "U+027B", "U+027C", "U+027D", "U+027E", "U+027F", "U+0280",
       "U+0281", "U+0282", "U+0283", "U+0284", "U+0285", "U+0286", "U+0287",
       "U+0288", "U+0289", "U+028A", "U+028B", "U+028C", "U+028D", "U+028E",
       "U+028F", "U+0290", "U+0291", "U+0292", "U+0293", "U+0296", "U+0297",
       "U+0298", "U+0299", "U+029A", "U+029B", "U+029C", "U+029D", "U+029E",
       "U+029F", "U+02A0", "U+02A1", "U+02A2", "U+02A3", "U+02A4", "U+02A5",
       "U+02A6", "U+02A7", "U+02A8", "U+02A9", "U+02AA", "U+02AB", "U+02AC",
       "U+02AD", "U+02AE", "U+02AF", "U+0370", "U+0371", "U+0372", "U+0373",
       "U+0376", "U+0377", "U+037B", "U+037C", "U+037D", "U+037F", "U+0386",
       "U+0388", "U+0389", "U+038A", "U+038C", "U+038E", "U+038F", "U+0390",
       "U+0391", "U+0392", "U+0393", "U+0394", "U+0395", "U+0396", "U+0397",
       "U+0398", "U+0399", "U+039A", "U+039B", "U+039C", "U+039D", "U+039E",
       "U+039F", "U+03A0", "U+03A1", "U+03A3", "U+03A4", "U+03A5", "U+03A6",
       "U+03A7", "U+03A8", "U+03A9", "U+03AA", "U+03AB", "U+03AC", "U+03AD",
       "U+03AE", "U+03AF", "U+03B0", "U+03B1", "U+03B2", "U+03B3", "U+03B4",
       "U+03B5", "U+03B6", "U+03B7", "U+03B8", "U+03B9", "U+03BA", "U+03BB",
       "U+03BC", "U+03BD", "U+03BE", "U+03BF", "U+03C0", "U+03C1", "U+03C2",
       "U+03C3", "U+03C4", "U+03C5", "U+03C6", "U+03C7", "U+03C8", "U+03C9",
       "U+03CA", "U+03CB", "U+03CC", "U+03CD", "U+03CE", "U+03CF", "U+03D0",
       "U+03D1", "U+03D2", "U+03D3", "U+03D4", "U+03D5", "U+03D6", "U+03D7",
       "U+03D8", "U+03D9", "U+03DA", "U+03DB", "U+03DC", "U+03DD", "U+03DE",
       "U+03DF", "U+03E0", "U+03E1", "U+03E2", "U+03E3", "U+03E4", "U+03E5",
       "U+03E6", "U+03E7", "U+03E8", "U+03E9", "U+03EA", "U+03EB", "U+03EC",
       "U+03ED", "U+03EE", "U+03EF", "U+03F0", "U+03F1", "U+03F2", "U+03F3",
       "U+03F4", "U+03F5", "U+03F7", "U+03F8", "U+03F9", "U+03FA", "U+03FB",
       "U+03FC", "U+03FD", "U+03FE", "U+03FF", "U+0400", "U+0401", "U+0402",
       "U+0403", "U+0404", "U+0405", "U+0406", "U+0407", "U+0408", "U+0409",
       "U+040A", "U+040B", "U+040C", "U+040D", "U+040E", "U+040F", "U+0410",
       "U+0411", "U+0412", "U+0413", "U+0414", "U+0415", "U+0416", "U+0417",
       "U+0418", "U+0419", "U+041A", "U+041B", "U+041C", "U+041D", "U+041E",
       "U+041F", "U+0420", "U+0421", "U+0422", "U+0423", "U+0424", "U+0425",
       "U+0426", "U+0427", "U+0428", "U+0429", "U+042A", "U+042B", "U+042C",
       "U+042D", "U+042E", "U+042F", "U+0430", "U+0431", "U+0432", "U+0433",
       "U+0434", "U+0435", "U+0436", "U+0437", "U+0438", "U+0439", "U+043A",
       "U+043B", "U+043C", "U+043D", "U+043E", "U+043F", "U+0440", "U+0441",
       "U+0442", "U+0443", "U+0444", "U+0445", "U+0446", "U+0447", "U+0448",
       "U+0449", "U+044A", "U+044B", "U+044C", "U+044D", "U+044E", "U+044F",
       "U+0450", "U+0451", "U+0452", "U+0453", "U+0454", "U+0455", "U+0456",
       "U+0457", "U+0458", "U+0459", "U+045A", "U+045B", "U+045C", "U+045D",
       "U+045E", "U+045F", "U+0460", "U+0461", "U+0462", "U+0463", "U+0464",
       "U+0465", "U+0466", "U+0467", "U+0468", "U+0469", "U+046A", "U+046B",
       "U+046C", "U+046D", "U+046E", "U+046F", "U+0470", "U+0471", "U+0472",
       "U+0473", "U+0474", "U+0475", "U+0476", "U+0477", "U+0478", "U+0479",
       "U+047A", "U+047B", "U+047C", "U+047D", "U+047E", "U+047F", "U+0480",
       "U+0481", "U+048A", "U+048B", "U+048C", "U+048D", "U+048E", "U+048F",
       "U+0490", "U+0491", "U+0492", "U+0493", "U+0494", "U+0495", "U+0496",
       "U+0497", "U+0498", "U+0499", "U+049A", "U+049B", "U+049C", "U+049D",
       "U+049E", "U+049F", "U+04A0", "U+04A1", "U+04A2", "U+04A3", "U+04A4",
       "U+04A5", "U+04A6", "U+04A7", "U+04A8", "U+04A9", "U+04AA", "U+04AB",
       "U+04AC", "U+04AD", "U+04AE", "U+04AF", "U+04B0", "U+04B1", "U+04B2",
       "U+04B3", "U+04B4", "U+04B5", "U+04B6", "U+04B7", "U+04B8", "U+04B9",
       "U+04BA", "U+04BB", "U+04BC", "U+04BD", "U+04BE", "U+04BF", "U+04C0",
       "U+04C1", "U+04C2", "U+04C3", "U+04C4", "U+04C5", "U+04C6", "U+04C7",
       "U+04C8", "U+04C9", "U+04CA", "U+04CB", "U+04CC", "U+04CD", "U+04CE",
       "U+04CF", "U+04D0", "U+04D1", "U+04D2", "U+04D3", "U+04D4", "U+04D5",
       "U+04D6", "U+04D7", "U+04D8", "U+04D9", "U+04DA", "U+04DB", "U+04DC",
       "U+04DD", "U+04DE", "U+04DF", "U+04E0", "U+04E1", "U+04E2", "U+04E3",
       "U+04E4", "U+04E5", "U+04E6", "U+04E7", "U+04E8", "U+04E9", "U+04EA",
       "U+04EB", "U+04EC", "U+04ED", "U+04EE", "U+04EF", "U+04F0", "U+04F1",
       "U+04F2", "U+04F3", "U+04F4", "U+04F5", "U+04F6", "U+04F7", "U+04F8",
       "U+04F9", "U+04FA", "U+04FB", "U+04FC", "U+04FD", "U+04FE", "U+04FF",
       "U+0500", "U+0501", "U+0502", "U+0503", "U+0504", "U+0505", "U+0506",
       "U+0507", "U+0508", "U+0509", "U+050A", "U+050B", "U+050C", "U+050D",
       "U+050E", "U+050F", "U+0510", "U+0511", "U+0512", "U+0513", "U+0514",
       "U+0515", "U+0516", "U+0517", "U+0518", "U+0519", "U+051A", "U+051B",
       "U+051C", "U+051D", "U+051E", "U+051F", "U+0520", "U+0521", "U+0522",
       "U+0523", "U+0524", "U+0525", "U+0526", "U+0527", "U+0528", "U+0529",
       "U+052A", "U+052B", "U+052C", "U+052D", "U+052E", "U+052F", "U+0531",
       "U+0532", "U+0533", "U+0534", "U+0535", "U+0536", "U+0537", "U+0538",
       "U+0539", "U+053A", "U+053B", "U+053C", "U+053D", "U+053E", "U+053F",
       "U+0540", "U+0541", "U+0542", "U+0543", "U+0544", "U+0545", "U+0546",
       "U+0547", "U+0548", "U+0549", "U+054A", "U+054B", "U+054C", "U+054D",
       "U+054E", "U+054F", "U+0550", "U+0551", "U+0552", "U+0553", "U+0554",
       "U+0555", "U+0556", "U+0560", "U+0561", "U+0562", "U+0563", "U+0564",
       "U+0565", "U+0566", "U+0567", "U+0568", "U+0569", "U+056A", "U+056B",
       "U+056C", "U+056D", "U+056E", "U+056F", "U+0570", "U+0571", "U+0572",
       "U+0573", "U+0574", "U+0575", "U+0576", "U+0577", "U+0578", "U+0579",
       "U+057A", "U+057B", "U+057C", "U+057D", "U+057E", "U+057F", "U+0580",
       "U+0581", "U+0582", "U+0583", "U+0584", "U+0585", "U+0586", "U+0587",
       "U+0588", "U+10A0", "U+10A1", "U+10A2", "U+10A3", "U+10A4", "U+10A5",
       "U+10A6", "U+10A7", "U+10A8", "U+10A9", "U+10AA", "U+10AB", "U+10AC",
       "U+10AD", "U+10AE", "U+10AF", "U+10B0", "U+10B1", "U+10B2", "U+10B3",
       "U+10B4", "U+10B5", "U+10B6", "U+10B7", "U+10B8", "U+10B9", "U+10BA",
       "U+10BB", "U+10BC", "U+10BD", "U+10BE", "U+10BF", "U+10C0", "U+10C1",
       "U+10C2", "U+10C3", "U+10C4", "U+10C5", "U+10C7", "U+10CD", "U+10D0",
       "U+10D1", "U+10D2", "U+10D3", "U+10D4", "U+10D5", "U+10D6", "U+10D7",
       "U+10D8", "U+10D9", "U+10DA", "U+10DB", "U+10DC", "U+10DD", "U+10DE",
       "U+10DF", "U+10E0", "U+10E1", "U+10E2", "U+10E3", "U+10E4", "U+10E5",
       "U+10E6", "U+10E7", "U+10E8", "U+10E9", "U+10EA", "U+10EB", "U+10EC",
       "U+10ED", "U+10EE", "U+10EF", "U+10F0", "U+10F1", "U+10F2", "U+10F3",
       "U+10F4", "U+10F5", "U+10F6", "U+10F7", "U+10F8", "U+10F9", "U+10FA",
       "U+10FD", "U+10FE", "U+10FF", "U+13A0", "U+13A1", "U+13A2", "U+13A3",
       "U+13A4", "U+13A5", "U+13A6", "U+13A7", "U+13A8", "U+13A9", "U+13AA",
       "U+13AB", "U+13AC", "U+13AD", "U+13AE", "U+13AF", "U+13B0", "U+13B1",
       "U+13B2", "U+13B3", "U+13B4", "U+13B5", "U+13B6", "U+13B7", "U+13B8",
       "U+13B9", "U+13BA", "U+13BB", "U+13BC", "U+13BD", "U+13BE", "U+13BF",
       "U+13C0", "U+13C1", "U+13C2", "U+13C3", "U+13C4", "U+13C5", "U+13C6",
       "U+13C7", "U+13C8", "U+13C9", "U+13CA", "U+13CB", "U+13CC", "U+13CD",
       "U+13CE", "U+13CF", "U+13D0", "U+13D1", "U+13D2", "U+13D3", "U+13D4",
       "U+13D5", "U+13D6", "U+13D7", "U+13D8", "U+13D9", "U+13DA", "U+13DB",
       "U+13DC", "U+13DD", "U+13DE", "U+13DF", "U+13E0", "U+13E1", "U+13E2",
       "U+13E3", "U+13E4", "U+13E5", "U+13E6", "U+13E7", "U+13E8", "U+13E9",
       "U+13EA", "U+13EB", "U+13EC", "U+13ED", "U+13EE", "U+13EF", "U+13F0",
       "U+13F1", "U+13F2", "U+13F3", "U+13F4", "U+13F5", "U+13F8", "U+13F9",
       "U+13FA", "U+13FB", "U+13FC", "U+13FD", "U+1C80", "U+1C81", "U+1C82",
       "U+1C83", "U+1C84", "U+1C85", "U+1C86", "U+1C87", "U+1C88", "U+1C89",
       "U+1C8A", "U+1C90", "U+1C91", "U+1C92", "U+1C93", "U+1C94", "U+1C95",
       "U+1C96", "U+1C97", "U+1C98", "U+1C99", "U+1C9A", "U+1C9B", "U+1C9C",
       "U+1C9D", "U+1C9E", "U+1C9F", "U+1CA0", "U+1CA1", "U+1CA2", "U+1CA3",
       "U+1CA4", "U+1CA5", "U+1CA6", "U+1CA7", "U+1CA8", "U+1CA9", "U+1CAA",
       "U+1CAB", "U+1CAC", "U+1CAD", "U+1CAE", "U+1CAF", "U+1CB0", "U+1CB1",
       "U+1CB2", "U+1CB3", "U+1CB4", "U+1CB5", "U+1CB6", "U+1CB7", "U+1CB8",
       "U+1CB9", "U+1CBA", "U+1CBD", "U+1CBE", "U+1CBF", "U+1D00", "U+1D01",
       "U+1D02", "U+1D03", "U+1D04", "U+1D05", "U+1D06", "U+1D07", "U+1D08",
       "U+1D09", "U+1D0A", "U+1D0B", "U+1D0C", "U+1D0D", "U+1D0E", "U+1D0F",
       "U+1D10", "U+1D11", "U+1D12", "U+1D13", "U+1D14", "U+1D15", "U+1D16",
       "U+1D17", "U+1D18", "U+1D19", "U+1D1A", "U+1D1B", "U+1D1C", "U+1D1D",
       "U+1D1E", "U+1D1F", "U+1D20", "U+1D21", "U+1D22", "U+1D23", "U+1D24",
       "U+1D25", "U+1D26", "U+1D27", "U+1D28", "U+1D29", "U+1D2A", "U+1D2B",
       "U+1D6B", "U+1D6C", "U+1D6D", "U+1D6E", "U+1D6F", "U+1D70", "U+1D71",
       "U+1D72", "U+1D73", "U+1D74", "U+1D75", "U+1D76", "U+1D77", "U+1D79",
       "U+1D7A", "U+1D7B", "U+1D7C", "U+1D7D", "U+1D7E", "U+1D7F", "U+1D80",
       "U+1D81", "U+1D82", "U+1D83", "U+1D84", "U+1D85", "U+1D86", "U+1D87",
       "U+1D88", "U+1D89", "U+1D8A", "U+1D8B", "U+1D8C", "U+1D8D", "U+1D8E",
       "U+1D8F", "U+1D90", "U+1D91", "U+1D92", "U+1D93", "U+1D94", "U+1D95",
       "U+1D96", "U+1D97", "U+1D98", "U+1D99", "U+1D9A", "U+1E00", "U+1E01",
       "U+1E02", "U+1E03", "U+1E04", "U+1E05", "U+1E06", "U+1E07", "U+1E08",
       "U+1E09", "U+1E0A", "U+1E0B", "U+1E0C", "U+1E0D", "U+1E0E", "U+1E0F",
       "U+1E10", "U+1E11", "U+1E12", "U+1E13", "U+1E14", "U+1E15", "U+1E16",
       "U+1E17", "U+1E18", "U+1E19", "U+1E1A", "U+1E1B", "U+1E1C", "U+1E1D",
       "U+1E1E", "U+1E1F", "U+1E20", "U+1E21", "U+1E22", "U+1E23", "U+1E24",
       "U+1E25", "U+1E26", "U+1E27", "U+1E28", "U+1E29", "U+1E2A", "U+1E2B",
       "U+1E2C", "U+1E2D", "U+1E2E", "U+1E2F", "U+1E30", "U+1E31", "U+1E32",
       "U+1E33", "U+1E34", "U+1E35", "U+1E36", "U+1E37", "U+1E38", "U+1E39",
       "U+1E3A", "U+1E3B", "U+1E3C", "U+1E3D", "U+1E3E", "U+1E3F", "U+1E40",
       "U+1E41", "U+1E42", "U+1E43", "U+1E44", "U+1E45", "U+1E46", "U+1E47",
       "U+1E48", "U+1E49", "U+1E4A", "U+1E4B", "U+1E4C", "U+1E4D", "U+1E4E",
       "U+1E4F", "U+1E50", "U+1E51", "U+1E52", "U+1E53", "U+1E54", "U+1E55",
       "U+1E56", "U+1E57", "U+1E58", "U+1E59", "U+1E5A", "U+1E5B", "U+1E5C",
       "U+1E5D", "U+1E5E", "U+1E5F", "U+1E60", "U+1E61", "U+1E62", "U+1E63",
       "U+1E64", "U+1E65", "U+1E66", "U+1E67", "U+1E68", "U+1E69", "U+1E6A",
       "U+1E6B", "U+1E6C", "U+1E6D", "U+1E6E", "U+1E6F", "U+1E70", "U+1E71",
       "U+1E72", "U+1E73", "U+1E74", "U+1E75", "U+1E76", "U+1E77", "U+1E78",
       "U+1E79", "U+1E7A", "U+1E7B", "U+1E7C", "U+1E7D", "U+1E7E", "U+1E7F",
       "U+1E80", "U+1E81", "U+1E82", "U+1E83", "U+1E84", "U+1E85", "U+1E86",
       "U+1E87", "U+1E88", "U+1E89", "U+1E8A", "U+1E8B", "U+1E8C", "U+1E8D",
       "U+1E8E", "U+1E8F", "U+1E90", "U+1E91", "U+1E92", "U+1E93", "U+1E94",
       "U+1E95", "U+1E96", "U+1E97", "U+1E98", "U+1E99", "U+1E9A", "U+1E9B",
       "U+1E9C", "U+1E9D", "U+1E9E", "U+1E9F", "U+1EA0", "U+1EA1", "U+1EA2",
       "U+1EA3", "U+1EA4", "U+1EA5", "U+1EA6", "U+1EA7", "U+1EA8", "U+1EA9",
       "U+1EAA", "U+1EAB", "U+1EAC", "U+1EAD", "U+1EAE", "U+1EAF", "U+1EB0",
       "U+1EB1", "U+1EB2", "U+1EB3", "U+1EB4", "U+1EB5", "U+1EB6", "U+1EB7",
       "U+1EB8", "U+1EB9", "U+1EBA", "U+1EBB", "U+1EBC", "U+1EBD", "U+1EBE",
       "U+1EBF", "U+1EC0", "U+1EC1", "U+1EC2", "U+1EC3", "U+1EC4", "U+1EC5",
       "U+1EC6", "U+1EC7", "U+1EC8", "U+1EC9", "U+1ECA", "U+1ECB", "U+1ECC",
       "U+1ECD", "U+1ECE", "U+1ECF", "U+1ED0", "U+1ED1", "U+1ED2", "U+1ED3",
       "U+1ED4", "U+1ED5", "U+1ED6", "U+1ED7", "U+1ED8", "U+1ED9", "U+1EDA",
       "U+1EDB", "U+1EDC", "U+1EDD", "U+1EDE", "U+1EDF", "U+1EE0", "U+1EE1",
       "U+1EE2", "U+1EE3", "U+1EE4", "U+1EE5", "U+1EE6", "U+1EE7", "U+1EE8",
       "U+1EE9", "U+1EEA", "U+1EEB", "U+1EEC", "U+1EED", "U+1EEE", "U+1EEF",
       "U+1EF0", "U+1EF1", "U+1EF2", "U+1EF3", "U+1EF4", "U+1EF5", "U+1EF6",
       "U+1EF7", "U+1EF8", "U+1EF9", "U+1EFA", "U+1EFB", "U+1EFC", "U+1EFD",
       "U+1EFE", "U+1EFF", "U+1F00", "U+1F01", "U+1F02", "U+1F03", "U+1F04",
       "U+1F05", "U+1F06", "U+1F07", "U+1F08", "U+1F09", "U+1F0A", "U+1F0B",
       "U+1F0C", "U+1F0D", "U+1F0E", "U+1F0F", "U+1F10", "U+1F11", "U+1F12",
       "U+1F13", "U+1F14", "U+1F15", "U+1F18", "U+1F19", "U+1F1A", "U+1F1B",
       "U+1F1C", "U+1F1D", "U+1F20", "U+1F21", "U+1F22", "U+1F23", "U+1F24",
       "U+1F25", "U+1F26", "U+1F27", "U+1F28", "U+1F29", "U+1F2A", "U+1F2B",
       "U+1F2C", "U+1F2D", "U+1F2E", "U+1F2F", "U+1F30", "U+1F31", "U+1F32",
       "U+1F33", "U+1F34", "U+1F35", "U+1F36", "U+1F37", "U+1F38", "U+1F39",
       "U+1F3A", "U+1F3B", "U+1F3C", "U+1F3D", "U+1F3E", "U+1F3F", "U+1F40",
       "U+1F41", "U+1F42", "U+1F43", "U+1F44", "U+1F45", "U+1F48", "U+1F49",
       "U+1F4A", "U+1F4B", "U+1F4C", "U+1F4D", "U+1F50", "U+1F51", "U+1F52",
       "U+1F53", "U+1F54", "U+1F55", "U+1F56", "U+1F57", "U+1F59", "U+1F5B",
       "U+1F5D", "U+1F5F", "U+1F60", "U+1F61", "U+1F62", "U+1F63", "U+1F64",
       "U+1F65", "U+1F66", "U+1F67", "U+1F68", "U+1F69", "U+1F6A", "U+1F6B",
       "U+1F6C", "U+1F6D", "U+1F6E", "U+1F6F", "U+1F70", "U+1F71", "U+1F72",
       "U+1F73", "U+1F74", "U+1F75", "U+1F76", "U+1F77", "U+1F78", "U+1F79",
       "U+1F7A", "U+1F7B", "U+1F7C", "U+1F7D", "U+1F80", "U+1F81", "U+1F82",
       "U+1F83", "U+1F84", "U+1F85", "U+1F86", "U+1F87", "U+1F88", "U+1F89",
       "U+1F8A", "U+1F8B", "U+1F8C", "U+1F8D", "U+1F8E", "U+1F8F", "U+1F90",
       "U+1F91", "U+1F92", "U+1F93", "U+1F94", "U+1F95", "U+1F96", "U+1F97",
       "U+1F98", "U+1F99", "U+1F9A", "U+1F9B", "U+1F9C", "U+1F9D", "U+1F9E",
       "U+1F9F", "U+1FA0", "U+1FA1", "U+1FA2", "U+1FA3", "U+1FA4", "U+1FA5",
       "U+1FA6", "U+1FA7", "U+1FA8", "U+1FA9", "U+1FAA", "U+1FAB", "U+1FAC",
       "U+1FAD", "U+1FAE", "U+1FAF", "U+1FB0", "U+1FB1", "U+1FB2", "U+1FB3",
       "U+1FB4", "U+1FB6", "U+1FB7", "U+1FB8", "U+1FB9", "U+1FBA", "U+1FBB",
       "U+1FBC", "U+1FBE", "U+1FC2", "U+1FC3", "U+1FC4", "U+1FC6", "U+1FC7",
       "U+1FC8", "U+1FC9", "U+1FCA", "U+1FCB", "U+1FCC", "U+1FD0", "U+1FD1",
       "U+1FD2", "U+1FD3", "U+1FD6", "U+1FD7", "U+1FD8", "U+1FD9", "U+1FDA",
       "U+1FDB", "U+1FE0", "U+1FE1", "U+1FE2", "U+1FE3", "U+1FE4", "U+1FE5",
       "U+1FE6", "U+1FE7", "U+1FE8", "U+1FE9", "U+1FEA", "U+1FEB", "U+1FEC",
       "U+1FF2", "U+1FF3", "U+1FF4", "U+1FF6", "U+1FF7", "U+1FF8", "U+1FF9",
       "U+1FFA", "U+1FFB", "U+1FFC", "U+2102", "U+2107", "U+210A", "U+210B",
       "U+210C", "U+210D", "U+210E", "U+210F", "U+2110", "U+2111", "U+2112",
       "U+2113", "U+2115", "U+2119", "U+211A", "U+211B", "U+211C", "U+211D",
       "U+2124", "U+2126", "U+2128", "U+212A", "U+212B", "U+212C", "U+212D",
       "U+212F", "U+2130", "U+2131", "U+2132", "U+2133", "U+2134", "U+2139",
       "U+213C", "U+213D", "U+213E", "U+213F", "U+2145", "U+2146", "U+2147",
       "U+2148", "U+2149", "U+214E", "U+2160", "U+2161", "U+2162", "U+2163",
       "U+2164", "U+2165", "U+2166", "U+2167", "U+2168", "U+2169", "U+216A",
       "U+216B", "U+216C", "U+216D", "U+216E", "U+216F", "U+2170", "U+2171",
       "U+2172", "U+2173", "U+2174", "U+2175", "U+2176", "U+2177", "U+2178",
       "U+2179", "U+217A", "U+217B", "U+217C", "U+217D", "U+217E", "U+217F",
       "U+2183", "U+2184", "U+24B6", "U+24B7", "U+24B8", "U+24B9", "U+24BA",
       "U+24BB", "U+24BC", "U+24BD", "U+24BE", "U+24BF", "U+24C0", "U+24C1",
       "U+24C2", "U+24C3", "U+24C4", "U+24C5", "U+24C6", "U+24C7", "U+24C8",
       "U+24C9", "U+24CA", "U+24CB", "U+24CC", "U+24CD", "U+24CE", "U+24CF",
       "U+24D0", "U+24D1", "U+24D2", "U+24D3", "U+24D4", "U+24D5", "U+24D6",
       "U+24D7", "U+24D8", "U+24D9", "U+24DA", "U+24DB", "U+24DC", "U+24DD",
       "U+24DE", "U+24DF", "U+24E0", "U+24E1", "U+24E2", "U+24E3", "U+24E4",
       "U+24E5", "U+24E6", "U+24E7", "U+24E8", "U+24E9", "U+2C00", "U+2C01",
       "U+2C02", "U+2C03", "U+2C04", "U+2C05", "U+2C06", "U+2C07", "U+2C08",
       "U+2C09", "U+2C0A", "U+2C0B", "U+2C0C", "U+2C0D", "U+2C0E", "U+2C0F",
       "U+2C10", "U+2C11", "U+2C12", "U+2C13", "U+2C14", "U+2C15", "U+2C16",
       "U+2C17", "U+2C18", "U+2C19", "U+2C1A", "U+2C1B", "U+2C1C", "U+2C1D",
       "U+2C1E", "U+2C1F", "U+2C20", "U+2C21", "U+2C22", "U+2C23", "U+2C24",
       "U+2C25", "U+2C26", "U+2C27", "U+2C28", "U+2C29", "U+2C2A", "U+2C2B",
       "U+2C2C", "U+2C2D", "U+2C2E", "U+2C2F", "U+2C30", "U+2C31", "U+2C32",
       "U+2C33", "U+2C34", "U+2C35", "U+2C36", "U+2C37", "U+2C38", "U+2C39",
       "U+2C3A", "U+2C3B", "U+2C3C", "U+2C3D", "U+2C3E", "U+2C3F", "U+2C40",
       "U+2C41", "U+2C42", "U+2C43", "U+2C44", "U+2C45", "U+2C46", "U+2C47",
       "U+2C48", "U+2C49", "U+2C4A", "U+2C4B", "U+2C4C", "U+2C4D", "U+2C4E",
       "U+2C4F", "U+2C50", "U+2C51", "U+2C52", "U+2C53", "U+2C54", "U+2C55",
       "U+2C56", "U+2C57", "U+2C58", "U+2C59", "U+2C5A", "U+2C5B", "U+2C5C",
       "U+2C5D", "U+2C5E", "U+2C5F", "U+2C60", "U+2C61", "U+2C62", "U+2C63",
       "U+2C64", "U+2C65", "U+2C66", "U+2C67", "U+2C68", "U+2C69", "U+2C6A",
       "U+2C6B", "U+2C6C", "U+2C6D", "U+2C6E", "U+2C6F", "U+2C70", "U+2C71",
       "U+2C72", "U+2C73", "U+2C74", "U+2C75", "U+2C76", "U+2C77", "U+2C78",
       "U+2C79", "U+2C7A", "U+2C7B", "U+2C7E", "U+2C7F", "U+2C80", "U+2C81",
       "U+2C82", "U+2C83", "U+2C84", "U+2C85", "U+2C86", "U+2C87", "U+2C88",
       "U+2C89", "U+2C8A", "U+2C8B", "U+2C8C", "U+2C8D", "U+2C8E", "U+2C8F",
       "U+2C90", "U+2C91", "U+2C92", "U+2C93", "U+2C94", "U+2C95", "U+2C96",
       "U+2C97", "U+2C98", "U+2C99", "U+2C9A", "U+2C9B", "U+2C9C", "U+2C9D",
       "U+2C9E", "U+2C9F", "U+2CA0", "U+2CA1", "U+2CA2", "U+2CA3", "U+2CA4",
       "U+2CA5", "U+2CA6", "U+2CA7", "U+2CA8", "U+2CA9", "U+2CAA", "U+2CAB",
       "U+2CAC", "U+2CAD", "U+2CAE", "U+2CAF", "U+2CB0", "U+2CB1", "U+2CB2",
       "U+2CB3", "U+2CB4", "U+2CB5", "U+2CB6", "U+2CB7", "U+2CB8", "U+2CB9",
       "U+2CBA", "U+2CBB", "U+2CBC", "U+2CBD", "U+2CBE", "U+2CBF", "U+2CC0",
       "U+2CC1", "U+2CC2", "U+2CC3", "U+2CC4", "U+2CC5", "U+2CC6", "U+2CC7",
       "U+2CC8", "U+2CC9", "U+2CCA", "U+2CCB", "U+2CCC", "U+2CCD", "U+2CCE",
       "U+2CCF", "U+2CD0", "U+2CD1", "U+2CD2", "U+2CD3", "U+2CD4", "U+2CD5",
       "U+2CD6", "U+2CD7", "U+2CD8", "U+2CD9", "U+2CDA", "U+2CDB", "U+2CDC",
       "U+2CDD", "U+2CDE", "U+2CDF", "U+2CE0", "U+2CE1", "U+2CE2", "U+2CE3",
       "U+2CE4", "U+2CEB", "U+2CEC", "U+2CED", "U+2CEE", "U+2CF2", "U+2CF3",
       "U+2D00", "U+2D01", "U+2D02", "U+2D03", "U+2D04", "U+2D05", "U+2D06",
       "U+2D07", "U+2D08", "U+2D09", "U+2D0A", "U+2D0B", "U+2D0C", "U+2D0D",
       "U+2D0E", "U+2D0F", "U+2D10", "U+2D11", "U+2D12", "U+2D13", "U+2D14",
       "U+2D15", "U+2D16", "U+2D17", "U+2D18", "U+2D19", "U+2D1A", "U+2D1B",
       "U+2D1C", "U+2D1D", "U+2D1E", "U+2D1F", "U+2D20", "U+2D21", "U+2D22",
       "U+2D23", "U+2D24", "U+2D25", "U+2D27", "U+2D2D", "U+A640", "U+A641",
       "U+A642", "U+A643", "U+A644", "U+A645", "U+A646", "U+A647", "U+A648",
       "U+A649", "U+A64A", "U+A64B", "U+A64C", "U+A64D", "U+A64E", "U+A64F",
       "U+A650", "U+A651", "U+A652", "U+A653", "U+A654", "U+A655", "U+A656",
       "U+A657", "U+A658", "U+A659", "U+A65A", "U+A65B", "U+A65C", "U+A65D",
       "U+A65E", "U+A65F", "U+A660", "U+A661", "U+A662", "U+A663", "U+A664",
       "U+A665", "U+A666", "U+A667", "U+A668", "U+A669", "U+A66A", "U+A66B",
       "U+A66C", "U+A66D", "U+A680", "U+A681", "U+A682", "U+A683", "U+A684",
       "U+A685", "U+A686", "U+A687", "U+A688", "U+A689", "U+A68A", "U+A68B",
       "U+A68C", "U+A68D", "U+A68E", "U+A68F", "U+A690", "U+A691", "U+A692",
       "U+A693", "U+A694", "U+A695", "U+A696", "U+A697", "U+A698", "U+A699",
       "U+A69A", "U+A69B", "U+A722", "U+A723", "U+A724", "U+A725", "U+A726",
       "U+A727", "U+A728", "U+A729", "U+A72A", "U+A72B", "U+A72C", "U+A72D",
       "U+A72E", "U+A72F", "U+A730", "U+A731", "U+A732", "U+A733", "U+A734",
       "U+A735", "U+A736", "U+A737", "U+A738", "U+A739", "U+A73A", "U+A73B",
       "U+A73C", "U+A73D", "U+A73E", "U+A73F", "U+A740", "U+A741", "U+A742",
       "U+A743", "U+A744", "U+A745", "U+A746", "U+A747", "U+A748", "U+A749",
       "U+A74A", "U+A74B", "U+A74C", "U+A74D", "U+A74E", "U+A74F", "U+A750",
       "U+A751", "U+A752", "U+A753", "U+A754", "U+A755", "U+A756", "U+A757",
       "U+A758", "U+A759", "U+A75A", "U+A75B", "U+A75C", "U+A75D", "U+A75E",
       "U+A75F", "U+A760", "U+A761", "U+A762", "U+A763", "U+A764", "U+A765",
       "U+A766", "U+A767", "U+A768", "U+A769", "U+A76A", "U+A76B", "U+A76C",
       "U+A76D", "U+A76E", "U+A76F", "U+A771", "U+A772", "U+A773", "U+A774",
       "U+A775", "U+A776", "U+A777", "U+A778", "U+A779", "U+A77A", "U+A77B",
       "U+A77C", "U+A77D", "U+A77E", "U+A77F", "U+A780", "U+A781", "U+A782",
       "U+A783", "U+A784", "U+A785", "U+A786", "U+A787", "U+A78B", "U+A78C",
       "U+A78D", "U+A78E", "U+A790", "U+A791", "U+A792", "U+A793", "U+A794",
       "U+A795", "U+A796", "U+A797", "U+A798", "U+A799", "U+A79A", "U+A79B",
       "U+A79C", "U+A79D", "U+A79E", "U+A79F", "U+A7A0", "U+A7A1", "U+A7A2",
       "U+A7A3", "U+A7A4", "U+A7A5", "U+A7A6", "U+A7A7", "U+A7A8", "U+A7A9",
       "U+A7AA", "U+A7AB", "U+A7AC", "U+A7AD", "U+A7AE", "U+A7AF", "U+A7B0",
       "U+A7B1", "U+A7B2", "U+A7B3", "U+A7B4", "U+A7B5", "U+A7B6", "U+A7B7",
       "U+A7B8", "U+A7B9", "U+A7BA", "U+A7BB", "U+A7BC", "U+A7BD", "U+A7BE",
       "U+A7BF", "U+A7C0", "U+A7C1", "U+A7C2", "U+A7C3", "U+A7C4", "U+A7C5",
       "U+A7C6", "U+A7C7", "U+A7C8", "U+A7C9", "U+A7CA", "U+A7CB", "U+A7CC",
       "U+A7CD", "U+A7CE", "U+A7CF", "U+A7D0", "U+A7D1", "U+A7D2", "U+A7D3",
       "U+A7D4", "U+A7D5", "U+A7D6", "U+A7D7", "U+A7D8", "U+A7D9", "U+A7DA",
       "U+A7DB", "U+A7DC", "U+A7F5", "U+A7F6", "U+A7FA", "U+AB30", "U+AB31",
       "U+AB32", "U+AB33", "U+AB34", "U+AB35", "U+AB36", "U+AB37", "U+AB38",
       "U+AB39", "U+AB3A", "U+AB3B", "U+AB3C", "U+AB3D", "U+AB3E", "U+AB3F",
       "U+AB40", "U+AB41", "U+AB42", "U+AB43", "U+AB44", "U+AB45", "U+AB46",
       "U+AB47", "U+AB48", "U+AB49", "U+AB4A", "U+AB4B", "U+AB4C", "U+AB4D",
       "U+AB4E", "U+AB4F", "U+AB50", "U+AB51", "U+AB52", "U+AB53", "U+AB54",
       "U+AB55", "U+AB56", "U+AB57", "U+AB58", "U+AB59", "U+AB5A", "U+AB60",
       "U+AB61", "U+AB62", "U+AB63", "U+AB64", "U+AB65", "U+AB66", "U+AB67",
       "U+AB68", "U+AB70", "U+AB71", "U+AB72", "U+AB73", "U+AB74", "U+AB75",
       "U+AB76", "U+AB77", "U+AB78", "U+AB79", "U+AB7A", "U+AB7B", "U+AB7C",
       "U+AB7D", "U+AB7E", "U+AB7F", "U+AB80", "U+AB81", "U+AB82", "U+AB83",
       "U+AB84", "U+AB85", "U+AB86", "U+AB87", "U+AB88", "U+AB89", "U+AB8A",
       "U+AB8B", "U+AB8C", "U+AB8D", "U+AB8E", "U+AB8F", "U+AB90", "U+AB91",
       "U+AB92", "U+AB93", "U+AB94", "U+AB95", "U+AB96", "U+AB97", "U+AB98",
       "U+AB99", "U+AB9A", "U+AB9B", "U+AB9C", "U+AB9D", "U+AB9E", "U+AB9F",
       "U+ABA0", "U+ABA1", "U+ABA2", "U+ABA3", "U+ABA4", "U+ABA5", "U+ABA6",
       "U+ABA7", "U+ABA8", "U+ABA9", "U+ABAA", "U+ABAB", "U+ABAC", "U+ABAD",
       "U+ABAE", "U+ABAF", "U+ABB0", "U+ABB1", "U+ABB2", "U+ABB3", "U+ABB4",
       "U+ABB5", "U+ABB6", "U+ABB7", "U+ABB8", "U+ABB9", "U+ABBA", "U+ABBB",
       "U+ABBC", "U+ABBD", "U+ABBE", "U+ABBF", "U+FB00", "U+FB01", "U+FB02",
       "U+FB03", "U+FB04", "U+FB05", "U+FB06", "U+FB13", "U+FB14", "U+FB15",
       "U+FB16", "U+FB17", "U+FF21", "U+FF22", "U+FF23", "U+FF24", "U+FF25",
       "U+FF26", "U+FF27", "U+FF28", "U+FF29", "U+FF2A", "U+FF2B", "U+FF2C",
       "U+FF2D", "U+FF2E", "U+FF2F", "U+FF30", "U+FF31", "U+FF32", "U+FF33",
       "U+FF34", "U+FF35", "U+FF36", "U+FF37", "U+FF38", "U+FF39", "U+FF3A",
       "U+FF41", "U+FF42", "U+FF43", "U+FF44", "U+FF45", "U+FF46", "U+FF47",
       "U+FF48", "U+FF49", "U+FF4A", "U+FF4B", "U+FF4C", "U+FF4D", "U+FF4E",
       "U+FF4F", "U+FF50", "U+FF51", "U+FF52", "U+FF53", "U+FF54", "U+FF55",
       "U+FF56", "U+FF57", "U+FF58", "U+FF59", "U+FF5A" }

\* the surrogate pairs hi, lo for the code units lo of a set
PairsOf(hi, los) == {<<hi, lo>> : lo \in los}

\* the surrogate pairs with the property Cased and without Case_Ignorable
CasedPairs ==
    UNION {
      PairsOf("U+D801",
          { "U+DC00", "U+DC01", "U+DC02", "U+DC03", "U+DC04", "U+DC05",
            "U+DC06", "U+DC07", "U+DC08", "U+DC09", "U+DC0A", "U+DC0B",
            "U+DC0C", "U+DC0D", "U+DC0E", "U+DC0F", "U+DC10", "U+DC11",
            "U+DC12", "U+DC13", "U+DC14", "U+DC15", "U+DC16", "U+DC17",
            "U+DC18", "U+DC19", "U+DC1A", "U+DC1B", "U+DC1C", "U+DC1D",
            "U+DC1E", "U+DC1F", "U+DC20", "U+DC21", "U+DC22", "U+DC23",
            "U+DC24", "U+DC25", "U+DC26", "U+DC27", "U+DC28", "U+DC29",
            "U+DC2A", "U+DC2B", "U+DC2C", "U+DC2D", "U+DC2E", "U+DC2F",
            "U+DC30", "U+DC31", "U+DC32", "U+DC33", "U+DC34", "U+DC35",
            "U+DC36", "U+DC37", "U+DC38", "U+DC39", "U+DC3A", "U+DC3B",
            "U+DC3C", "U+DC3D", "U+DC3E", "U+DC3F", "U+DC40", "U+DC41",
            "U+DC42", "U+DC43", "U+DC44", "U+DC45", "U+DC46", "U+DC47",
            "U+DC48", "U+DC49", "U+DC4A", "U+DC4B", "U+DC4C", "U+DC4D",
            "U+DC4E", "U+DC4F", "U+DCB0", "U+DCB1", "U+DCB2", "U+DCB3",
            "U+DCB4", "U+DCB5", "U+DCB6", "U+DCB7", "U+DCB8", "U+DCB9",
            "U+DCBA", "U+DCBB", "U+DCBC", "U+DCBD", "U+DCBE", "U+DCBF",
            "U+DCC0", "U+DCC1", "U+DCC2", "U+DCC3", "U+DCC4", "U+DCC5",
            "U+DCC6", "U+DCC7", "U+DCC8", "U+DCC9", "U+DCCA", "U+DCCB",
            "U+DCCC", "U+DCCD", "U+DCCE", "U+DCCF", "U+DCD0", "U+DCD1",
            "U+DCD2", "U+DCD3", "U+DCD8", "U+DCD9", "U+DCDA", "U+DCDB",
            "U+DCDC", "U+DCDD", "U+DCDE", "U+DCDF", "U+DCE0", "U+DCE1",
            "U+DCE2", "U+DCE3", "U+DCE4", "U+DCE5", "U+DCE6", "U+DCE7",
            "U+DCE8", "U+DCE9", "U+DCEA", "U+DCEB", "U+DCEC", "U+DCED",
            "U+DCEE", "U+DCEF", "U+DCF0", "U+DCF1", "U+DCF2", "U+DCF3",
            "U+DCF4", "U+DCF5", "U+DCF6", "U+DCF7", "U+DCF8", "U+DCF9",
            "U+DCFA", "U+DCFB", "U+DD70", "U+DD71", "U+DD72", "U+DD73",
            "U+DD74", "U+DD75", "U+DD76", "U+DD77", "U+DD78", "U+DD79",
            "U+DD7A", "U+DD7C", "U+DD7D", "U+DD7E", "U+DD7F", "U+DD80",
            "U+DD81", "U+DD82", "U+DD83", "U+DD84", "U+DD85", "U+DD86",
            "U+DD87", "U+DD88", "U+DD89", "U+DD8A", "U+DD8C", "U+DD8D",
            "U+DD8E", "U+DD8F", "U+DD90", "U+DD91", "U+DD92", "U+DD94",
            "U+DD95", "U+DD97", "U+DD98", "U+DD99", "U+DD9A", "U+DD9B",
            "U+DD9C", "U+DD9D", "U+DD9E", "U+DD9F", "U+DDA0", "U+DDA1",
            "U+DDA3", "U+DDA4", "U+DDA5", "U+DDA6", "U+DDA7", "U+DDA8",
            "U+DDA9", "U+DDAA", "U+DDAB", "U+DDAC", "U+DDAD", "U+DDAE",
            "U+DDAF", "U+DDB0", "U+DDB1", "U+DDB3", "U+DDB4", "U+DDB5",
            "U+DDB6", "U+DDB7", "U+DDB8", "U+DDB9", "U+DDBB", "U+DDBC" }),
      PairsOf("U+D803",
          { "U+DC80", "U+DC81", "U+DC82", "U+DC83", "U+DC84", "U+DC85",
            "U+DC86", "U+DC87", "U+DC88", "U+DC89", "U+DC8A", "U+DC8B",
            "U+DC8C", "U+DC8D", "U+DC8E", "U+DC8F", "U+DC90", "U+DC91",
            "U+DC92", "U+DC93", "U+DC94", "U+DC95", "U+DC96", "U+DC97",
            "U+DC98", "U+DC99", "U+DC9A", "U+DC9B", "U+DC9C", "U+DC9D",
            "U+DC9E", "U+DC9F", "U+DCA0", "U+DCA1", "U+DCA2", "U+DCA3",
            "U+DCA4", "U+DCA5", "U+DCA6", "U+DCA7", "U+DCA8", "U+DCA9",
            "U+DCAA", "U+DCAB", "U+DCAC", "U+DCAD", "U+DCAE", "U+DCAF",
            "U+DCB0", "U+DCB1", "U+DCB2", "U+DCC0", "U+DCC1", "U+DCC2",
            "U+DCC3", "U+DCC4", "U+DCC5", "U+DCC6", "U+DCC7", "U+DCC8",
            "U+DCC9", "U+DCCA", "U+DCCB", "U+DCCC", "U+DCCD", "U+DCCE",
            "U+DCCF", "U+DCD0", "U+DCD1", "U+DCD2", "U+DCD3", "U+DCD4",
            "U+DCD5", "U+DCD6", "U+DCD7", "U+DCD8", "U+DCD9", "U+DCDA",
            "U+DCDB", "U+DCDC", "U+DCDD", "U+DCDE", "U+DCDF", "U+DCE0",
            "U+DCE1", "U+DCE2", "U+DCE3", "U+DCE4", "U+DCE5", "U+DCE6",
            "U+DCE7", "U+DCE8", "U+DCE9", "U+DCEA", "U+DCEB", "U+DCEC",
            "U+DCED", "U+DCEE", "U+DCEF", "U+DCF0", "U+DCF1", "U+DCF2",
            "U+DD50", "U+DD51", "U+DD52", "U+DD53", "U+DD54", "U+DD55",
            "U+DD56", "U+DD57", "U+DD58", "U+DD59", "U+DD5A", "U+DD5B",
            "U+DD5C", "U+DD5D", "U+DD5E", "U+DD5F", "U+DD60", "U+DD61",
            "U+DD62", "U+DD63", "U+DD64", "U+DD65", "U+DD70", "U+DD71",
            "U+DD72", "U+DD73", "U+DD74", "U+DD75", "U+DD76", "U+DD77",
            "U+DD78", "U+DD79", "U+DD7A", "U+DD7B", "U+DD7C", "U+DD7D",
            "U+DD7E", "U+DD7F", "U+DD80", "U+DD81", "U+DD82", "U+DD83",
            "U+DD84", "U+DD85" }),
      PairsOf("U+D806",
          { "U+DCA0", "U+DCA1", "U+DCA2", "U+DCA3", "U+DCA4", "U+DCA5",
            "U+DCA6", "U+DCA7", "U+DCA8", "U+DCA9", "U+DCAA", "U+DCAB",
            "U+DCAC", "U+DCAD", "U+DCAE", "U+DCAF", "U+DCB0", "U+DCB1",
            "U+DCB2", "U+DCB3", "U+DCB4", "U+DCB5", "U+DCB6", "U+DCB7",
            "U+DCB8", "U+DCB9", "U+DCBA", "U+DCBB", "U+DCBC", "U+DCBD",
            "U+DCBE", "U+DCBF", "U+DCC0", "U+DCC1", "U+DCC2", "U+DCC3",
            "U+DCC4", "U+DCC5", "U+DCC6", "U+DCC7", "U+DCC8", "U+DCC9",
            "U+DCCA", "U+DCCB", "U+DCCC", "U+DCCD", "U+DCCE", "U+DCCF",
            "U+DCD0", "U+DCD1", "U+DCD2", "U+DCD3", "U+DCD4", "U+DCD5",
            "U+DCD6", "U+DCD7", "U+DCD8", "U+DCD9", "U+DCDA", "U+DCDB",
            "U+DCDC", "U+DCDD", "U+DCDE", "U+DCDF" }),
      PairsOf("U+D81B",
          { "U+DE40", "U+DE41", "U+DE42", "U+DE43", "U+DE44", "U+DE45",
            "U+DE46", "U+DE47", "U+DE48", "U+DE49", "U+DE4A", "U+DE4B",
            "U+DE4C", "U+DE4D", "U+DE4E", "U+DE4F", "U+DE50", "U+DE51",
            "U+DE52", "U+DE53", "U+DE54", "U+DE55", "U+DE56", "U+DE57",
            "U+DE58", "U+DE59", "U+DE5A", "U+DE5B", "U+DE5C", "U+DE5D",
            "U+DE5E", "U+DE5F", "U+DE60", "U+DE61", "U+DE62", "U+DE63",
            "U+DE64", "U+DE65", "U+DE66", "U+DE67", "U+DE68", "U+DE69",
            "U+DE6A", "U+DE6B", "U+DE6C", "U+DE6D", "U+DE6E", "U+DE6F",
            "U+DE70", "U+DE71", "U+DE72", "U+DE73", "U+DE74", "U+DE75",
            "U+DE76", "U+DE77", "U+DE78", "U+DE79", "U+DE7A", "U+DE7B",
            "U+DE7C", "U+DE7D", "U+DE7E", "U+DE7F", "U+DEA0", "U+DEA1",
            "U+DEA2", "U+DEA3", "U+DEA4", "U+DEA5", "U+DEA6", "U+DEA7",
            "U+DEA8", "U+DEA9", "U+DEAA", "U+DEAB", "U+DEAC", "U+DEAD",
            "U+DEAE", "U+DEAF", "U+DEB0", "U+DEB1", "U+DEB2", "U+DEB3",
            "U+DEB4", "U+DEB5", "U+DEB6", "U+DEB7", "U+DEB8", "U+DEBB",
            "U+DEBC", "U+DEBD", "U+DEBE", "U+DEBF", "U+DEC0", "U+DEC1",
            "U+DEC2", "U+DEC3", "U+DEC4", "U+DEC5", "U+DEC6", "U+DEC7",
            "U+DEC8", "U+DEC9", "U+DECA", "U+DECB", "U+DECC", "U+DECD",
            "U+DECE", "U+DECF", "U+DED0", "U+DED1", "U+DED2", "U+DED3" }),
      PairsOf("U+D835",
          { "U+DC00", "U+DC01", "U+DC02", "U+DC03", "U+DC04", "U+DC05",
            "U+DC06", "U+DC07", "U+DC08", "U+DC09", "U+DC0A", "U+DC0B",
            "U+DC0C", "U+DC0D", "U+DC0E", "U+DC0F", "U+DC10", "U+DC11",
            "U+DC12", "U+DC13", "U+DC14", "U+DC15", "U+DC16", "U+DC17",
            "U+DC18", "U+DC19", "U+DC1A", "U+DC1B", "U+DC1C", "U+DC1D",
            "U+DC1E", "U+DC1F", "U+DC20", "U+DC21", "U+DC22", "U+DC23",
            "U+DC24", "U+DC25", "U+DC26", "U+DC27", "U+DC28", "U+DC29",
            "U+DC2A", "U+DC2B", "U+DC2C", "U+DC2D", "U+DC2E", "U+DC2F",
            "U+DC30", "U+DC31", "U+DC32", "U+DC33", "U+DC34", "U+DC35",
            "U+DC36", "U+DC37", "U+DC38", "U+DC39", "U+DC3A", "U+DC3B",
            "U+DC3C", "U+DC3D", "U+DC3E", "U+DC3F", "U+DC40", "U+DC41",
            "U+DC42", "U+DC43", "U+DC44", "U+DC45", "U+DC46", "U+DC47",
            "U+DC48", "U+DC49", "U+DC4A", "U+DC4B", "U+DC4C", "U+DC4D",
            "U+DC4E", "U+DC4F", "U+DC50", "U+DC51", "U+DC52", "U+DC53",
            "U+DC54", "U+DC56", "U+DC57", "U+DC58", "U+DC59", "U+DC5A",
            "U+DC5B", "U+DC5C", "U+DC5D", "U+DC5E", "U+DC5F", "U+DC60",
            "U+DC61", "U+DC62", "U+DC63", "U+DC64", "U+DC65", "U+DC66",
            "U+DC67", "U+DC68", "U+DC69", "U+DC6A", "U+DC6B", "U+DC6C",
            "U+DC6D", "U+DC6E", "U+DC6F", "U+DC70", "U+DC71", "U+DC72",
            "U+DC73", "U+DC74", "U+DC75", "U+DC76", "U+DC77", "U+DC78",
            "U+DC79", "U+DC7A", "U+DC7B", "U+DC7C", "U+DC7D", "U+DC7E",
            "U+DC7F", "U+DC80", "U+DC81", "U+DC82", "U+DC83", "U+DC84",
            "U+DC85", "U+DC86", "U+DC87", "U+DC88", "U+DC89", "U+DC8A",
            "U+DC8B", "U+DC8C", "U+DC8D", "U+DC8E", "U+DC8F", "U+DC90",
            "U+DC91", "U+DC92", "U+DC93", "U+DC94", "U+DC95", "U+DC96",
            "U+DC97", "U+DC98", "U+DC99", "U+DC9A", "U+DC9B", "U+DC9C",
            "U+DC9E", "U+DC9F", "U+DCA2", "U+DCA5", "U+DCA6", "U+DCA9",
            "U+DCAA", "U+DCAB", "U+DCAC", "U+DCAE", "U+DCAF", "U+DCB0",
            "U+DCB1", "U+DCB2", "U+DCB3", "U+DCB4", "U+DCB5", "U+DCB6",
            "U+DCB7", "U+DCB8", "U+DCB9", "U+DCBB", "U+DCBD", "U+DCBE",
            "U+DCBF", "U+DCC0", "U+DCC1", "U+DCC2", "U+DCC3", "U+DCC5",
            "U+DCC6", "U+DCC7", "U+DCC8", "U+DCC9", "U+DCCA", "U+DCCB",
            "U+DCCC", "U+DCCD", "U+DCCE", "U+DCCF", "U+DCD0", "U+DCD1",
            "U+DCD2", "U+DCD3", "U+DCD4", "U+DCD5", "U+DCD6", "U+DCD7",
            "U+DCD8", "U+DCD9", "U+DCDA", "U+DCDB", "U+DCDC", "U+DCDD",
            "U+DCDE", "U+DCDF", "U+DCE0", "U+DCE1", "U+DCE2", "U+DCE3",
            "U+DCE4", "U+DCE5", "U+DCE6", "U+DCE7", "U+DCE8", "U+DCE9",
            "U+DCEA", "U+DCEB", "U+DCEC", "U+DCED", "U+DCEE", "U+DCEF",
            "U+DCF0", "U+DCF1", "U+DCF2", "U+DCF3", "U+DCF4", "U+DCF5",
            "U+DCF6", "U+DCF7", "U+DCF8", "U+DCF9", "U+DCFA", "U+DCFB",
            "U+DCFC", "U+DCFD", "U+DCFE", "U+DCFF", "U+DD00", "U+DD01",
            "U+DD02", "U+DD03", "U+DD04", "U+DD05", "U+DD07", "U+DD08",
            "U+DD09", "U+DD0A", "U+DD0D", "U+DD0E", "U+DD0F", "U+DD10",
            "U+DD11", "U+DD12", "U+DD13", "U+DD14", "U+DD16", "U+DD17",
            "U+DD18", "U+DD19", "U+DD1A", "U+DD1B", "U+DD1C", "U+DD1E",
            "U+DD1F", "U+DD20", "U+DD21", "U+DD22", "U+DD23", "U+DD24",
            "U+DD25", "U+DD26", "U+DD27", "U+DD28", "U+DD29", "U+DD2A",
            "U+DD2B", "U+DD2C", "U+DD2D", "U+DD2E", "U+DD2F", "U+DD30",
            "U+DD31", "U+DD32", "U+DD33", "U+DD34", "U+DD35", "U+DD36",
            "U+DD37", "U+DD38", "U+DD39", "U+DD3B", "U+DD3C", "U+DD3D",
            "U+DD3E", "U+DD40", "U+DD41", "U+DD42", "U+DD43", "U+DD44",
            "U+DD46", "U+DD4A", "U+DD4B", "U+DD4C", "U+DD4D", "U+DD4E",
            "U+DD4F", "U+DD50", "U+DD52", "U+DD53", "U+DD54", "U+DD55",
            "U+DD56", "U+DD57", "U+DD58", "U+DD59", "U+DD5A", "U+DD5B",
            "U+DD5C", "U+DD5D", "U+DD5E", "U+DD5F", "U+DD60", "U+DD61",
            "U+DD62", "U+DD63", "U+DD64", "U+DD65", "U+DD66", "U+DD67",
            "U+DD68", "U+DD69", "U+DD6A", "U+DD6B", "U+DD6C", "U+DD6D",
            "U+DD6E", "U+DD6F", "U+DD70", "U+DD71", "U+DD72", "U+DD73",
            "U+DD74", "U+DD75", "U+DD76", "U+DD77", "U+DD78", "U+DD79",
            "U+DD7A", "U+DD7B", "U+DD7C", "U+DD7D", "U+DD7E", "U+DD7F",
            "U+DD80", "U+DD81", "U+DD82", "U+DD83", "U+DD84", "U+DD85",
            "U+DD86", "U+DD87", "U+DD88", "U+DD89", "U+DD8A", "U+DD8B",
            "U+DD8C", "U+DD8D", "U+DD8E", "U+DD8F", "U+DD90", "U+DD91",
            "U+DD92", "U+DD93", "U+DD94", "U+DD95", "U+DD96", "U+DD97",
            "U+DD98", "U+DD99", "U+DD9A", "U+DD9B", "U+DD9C", "U+DD9D",
            "U+DD9E", "U+DD9F", "U+DDA0", "U+DDA1", "U+DDA2", "U+DDA3",
            "U+DDA4", "U+DDA5", "U+DDA6", "U+DDA7", "U+DDA8", "U+DDA9",
            "U+DDAA", "U+DDAB", "U+DDAC", "U+DDAD", "U+DDAE", "U+DDAF",
            "U+DDB0", "U+DDB1", "U+DDB2", "U+DDB3", "U+DDB4", "U+DDB5",
            "U+DDB6", "U+DDB7", "U+DDB8", "U+DDB9", "U+DDBA", "U+DDBB",
            "U+DDBC", "U+DDBD", "U+DDBE", "U+DDBF", "U+DDC0", "U+DDC1",
            "U+DDC2", "U+DDC3", "U+DDC4", "U+DDC5", "U+DDC6", "U+DDC7",
            "U+DDC8", "U+DDC9", "U+DDCA", "U+DDCB", "U+DDCC", "U+DDCD",
            "U+DDCE", "U+DDCF", "U+DDD0", "U+DDD1", "U+DDD2", "U+DDD3",
            "U+DDD4", "U+DDD5", "U+DDD6", "U+DDD7", "U+DDD8", "U+DDD9",
            "U+DDDA", "U+DDDB", "U+DDDC", "U+DDDD", "U+DDDE", "U+DDDF",
            "U+DDE0", "U+DDE1", "U+DDE2", "U+DDE3", "U+DDE4", "U+DDE5",
            "U+DDE6", "U+DDE7", "U+DDE8", "U+DDE9", "U+DDEA", "U+DDEB",
            "U+DDEC", "U+DDED", "U+DDEE", "U+DDEF", "U+DDF0", "U+DDF1",
            "U+DDF2", "U+DDF3", "U+DDF4", "U+DDF5", "U+DDF6", "U+DDF7",
            "U+DDF8", "U+DDF9", "U+DDFA", "U+DDFB", "U+DDFC", "U+DDFD",
            "U+DDFE", "U+DDFF", "U+DE00", "U+DE01", "U+DE02", "U+DE03",
            "U+DE04", "U+DE05", "U+DE06", "U+DE07", "U+DE08", "U+DE09",
            "U+DE0A", "U+DE0B", "U+DE0C", "U+DE0D", "U+DE0E", "U+DE0F",
            "U+DE10", "U+DE11", "U+DE12", "U+DE13", "U+DE14", "U+DE15",
            "U+DE16", "U+DE17", "U+DE18", "U+DE19", "U+DE1A", "U+DE1B",
            "U+DE1C", "U+DE1D", "U+DE1E", "U+DE1F", "U+DE20", "U+DE21",
            "U+DE22", "U+DE23", "U+DE24", "U+DE25", "U+DE26", "U+DE27",
            "U+DE28", "U+DE29", "U+DE2A", "U+DE2B", "U+DE2C", "U+DE2D",
            "U+DE2E", "U+DE2F", "U+DE30", "U+DE31", "U+DE32", "U+DE33",
            "U+DE34", "U+DE35", "U+DE36", "U+DE37", "U+DE38", "U+DE39",
            "U+DE3A", "U+DE3B", "U+DE3C", "U+DE3D", "U+DE3E", "U+DE3F",
            "U+DE40", "U+DE41", "U+DE42", "U+DE43", "U+DE44", "U+DE45",
            "U+DE46", "U+DE47", "U+DE48", "U+DE49", "U+DE4A", "U+DE4B",
            "U+DE4C", "U+DE4D", "U+DE4E", "U+DE4F", "U+DE50", "U+DE51",
            "U+DE52", "U+DE53", "U+DE54", "U+DE55", "U+DE56", "U+DE57",
            "U+DE58", "U+DE59", "U+DE5A", "U+DE5B", "U+DE5C", "U+DE5D",
            "U+DE5E", "U+DE5F", "U+DE60", "U+DE61", "U+DE62", "U+DE63",
            "U+DE64", "U+DE65", "U+DE66", "U+DE67", "U+DE68", "U+DE69",
            "U+DE6A", "U+DE6B", "U+DE6C", "U+DE6D", "U+DE6E", "U+DE6F",
            "U+DE70", "U+DE71", "U+DE72", "U+DE73", "U+DE74", "U+DE75",
            "U+DE76", "U+DE77", "U+DE78", "U+DE79", "U+DE7A", "U+DE7B",
            "U+DE7C", "U+DE7D", "U+DE7E", "U+DE7F", "U+DE80", "U+DE81",
            "U+DE82", "U+DE83", "U+DE84", "U+DE85", "U+DE86", "U+DE87",
            "U+DE88", "U+DE89", "U+DE8A", "U+DE8B", "U+DE8C", "U+DE8D",
            "U+DE8E", "U+DE8F", "U+DE90", "U+DE91", "U+DE92", "U+DE93",
            "U+DE94", "U+DE95", "U+DE96", "U+DE97", "U+DE98", "U+DE99",
            "U+DE9A", "U+DE9B", "U+DE9C", "U+DE9D", "U+DE9E", "U+DE9F",
            "U+DEA0", "U+DEA1", "U+DEA2", "U+DEA3", "U+DEA4", "U+DEA5",
            "U+DEA8", "U+DEA9", "U+DEAA", "U+DEAB", "U+DEAC", "U+DEAD",
            "U+DEAE", "U+DEAF", "U+DEB0", "U+DEB1", "U+DEB2", "U+DEB3",
            "U+DEB4", "U+DEB5", "U+DEB6", "U+DEB7", "U+DEB8", "U+DEB9",
            "U+DEBA", "U+DEBB", "U+DEBC", "U+DEBD", "U+DEBE", "U+DEBF",
            "U+DEC0", "U+DEC2", "U+DEC3", "U+DEC4", "U+DEC5", "U+DEC6",
            "U+DEC7", "U+DEC8", "U+DEC9", "U+DECA", "U+DECB", "U+DECC",
            "U+DECD", "U+DECE", "U+DECF", "U+DED0", "U+DED1", "U+DED2",
            "U+DED3", "U+DED4", "U+DED5", "U+DED6", "U+DED7", "U+DED8",
            "U+DED9", "U+DEDA", "U+DEDC", "U+DEDD", "U+DEDE", "U+DEDF",
            "U+DEE0", "U+DEE1", "U+DEE2", "U+DEE3", "U+DEE4", "U+DEE5",
            "U+DEE6", "U+DEE7", "U+DEE8", "U+DEE9", "U+DEEA", "U+DEEB",
            "U+DEEC", "U+DEED", "U+DEEE", "U+DEEF", "U+DEF0", "U+DEF1",
            "U+DEF2", "U+DEF3", "U+DEF4", "U+DEF5", "U+DEF6", "U+DEF7",
            "U+DEF8", "U+DEF9", "U+DEFA", "U+DEFC", "U+DEFD", "U+DEFE",
            "U+DEFF", "U+DF00", "U+DF01", "U+DF02", "U+DF03", "U+DF04",
            "U+DF05", "U+DF06", "U+DF07", "U+DF08", "U+DF09", "U+DF0A",
            "U+DF0B", "U+DF0C", "U+DF0D", "U+DF0E", "U+DF0F", "U+DF10",
            "U+DF11", "U+DF12", "U+DF13", "U+DF14", "U+DF16", "U+DF17",
            "U+DF18", "U+DF19", "U+DF1A", "U+DF1B", "U+DF1C", "U+DF1D",
            "U+DF1E", "U+DF1F", "U+DF20", "U+DF21", "U+DF22", "U+DF23",
            "U+DF24", "U+DF25", "U+DF26", "U+DF27", "U+DF28", "U+DF29",
            "U+DF2A", "U+DF2B", "U+DF2C", "U+DF2D", "U+DF2E", "U+DF2F",
            "U+DF30", "U+DF31", "U+DF32", "U+DF33", "U+DF34", "U+DF36",
            "U+DF37", "U+DF38", "U+DF39", "U+DF3A", "U+DF3B", "U+DF3C",
            "U+DF3D", "U+DF3E", "U+DF3F", "U+DF40", "U+DF41", "U+DF42",
            "U+DF43", "U+DF44", "U+DF45", "U+DF46", "U+DF47", "U+DF48",
            "U+DF49", "U+DF4A", "U+DF4B", "U+DF4C", "U+DF4D", "U+DF4E",
            "U+DF50", "U+DF51", "U+DF52", "U+DF53", "U+DF54", "U+DF55",
            "U+DF56", "U+DF57", "U+DF58", "U+DF59", "U+DF5A", "U+DF5B",
            "U+DF5C", "U+DF5D", "U+DF5E", "U+DF5F", "U+DF60", "U+DF61",
            "U+DF62", "U+DF63", "U+DF64", "U+DF65", "U+DF66", "U+DF67",
            "U+DF68", "U+DF69", "U+DF6A", "U+DF6B", "U+DF6C", "U+DF6D",
            "U+DF6E", "U+DF70", "U+DF71", "U+DF72", "U+DF73", "U+DF74",
            "U+DF75", "U+DF76", "U+DF77", "U+DF78", "U+DF79", "U+DF7A",
            "U+DF7B", "U+DF7C", "U+DF7D", "U+DF7E", "U+DF7F", "U+DF80",
            "U+DF81", "U+DF82", "U+DF83", "U+DF84", "U+DF85", "U+DF86",
            "U+DF87", "U+DF88", "U+DF8A", "U+DF8B", "U+DF8C", "U+DF8D",
            "U+DF8E", "U+DF8F", "U+DF90", "U+DF91", "U+DF92", "U+DF93",
            "U+DF94", "U+DF95", "U+DF96", "U+DF97", "U+DF98", "U+DF99",
            "U+DF9A", "U+DF9B", "U+DF9C", "U+DF9D", "U+DF9E", "U+DF9F",
            "U+DFA0", "U+DFA1", "U+DFA2", "U+DFA3", "U+DFA4", "U+DFA5",
            "U+DFA6", "U+DFA7", "U+DFA8", "U+DFAA", "U+DFAB", "U+DFAC",
            "U+DFAD", "U+DFAE", "U+DFAF", "U+DFB0", "U+DFB1", "U+DFB2",
            "U+DFB3", "U+DFB4", "U+DFB5", "U+DFB6", "U+DFB7", "U+DFB8",
            "U+DFB9", "U+DFBA", "U+DFBB", "U+DFBC", "U+DFBD", "U+DFBE",
            "U+DFBF", "U+DFC0", "U+DFC1", "U+DFC2", "U+DFC4", "U+DFC5",
            "U+DFC6", "U+DFC7", "U+DFC8", "U+DFC9", "U+DFCA", "U+DFCB" }),
      PairsOf("U+D837",
          { "U+DF00", "U+DF01", "U+DF02", "U+DF03", "U+DF04", "U+DF05",
            "U+DF06", "U+DF07", "U+DF08", "U+DF09", "U+DF0B", "U+DF0C",
            "U+DF0D", "U+DF0E", "U+DF0F", "U+DF10", "U+DF11", "U+DF12",
            "U+DF13", "U+DF14", "U+DF15", "U+DF16", "U+DF17", "U+DF18",
            "U+DF19", "U+DF1A", "U+DF1B", "U+DF1C", "U+DF1D", "U+DF1E",
            "U+DF25", "U+DF26", "U+DF27", "U+DF28", "U+DF29", "U+DF2A" }),
      PairsOf("U+D83A",
          { "U+DD00", "U+DD01", "U+DD02", "U+DD03", "U+DD04", "U+DD05",
            "U+DD06", "U+DD07", "U+DD08", "U+DD09", "U+DD0A", "U+DD0B",
            "U+DD0C", "U+DD0D", "U+DD0E", "U+DD0F", "U+DD10", "U+DD11",
            "U+DD12", "U+DD13", "U+DD14", "U+DD15", "U+DD16", "U+DD17",
            "U+DD18", "U+DD19", "U+DD1A", "U+DD1B", "U+DD1C", "U+DD1D",
            "U+DD1E", "U+DD1F", "U+DD20", "U+DD21", "U+DD22", "U+DD23",
            "U+DD24", "U+DD25", "U+DD26", "U+DD27", "U+DD28", "U+DD29",
            "U+DD2A", "U+DD2B", "U+DD2C", "U+DD2D", "U+DD2E", "U+DD2F",
            "U+DD30", "U+DD31", "U+DD32", "U+DD33", "U+DD34", "U+DD35",
            "U+DD36", "U+DD37", "U+DD38", "U+DD39", "U+DD3A", "U+DD3B",
            "U+DD3C", "U+DD3D", "U+DD3E", "U+DD3F", "U+DD40", "U+DD41",
            "U+DD42", "U+DD43" }),
      PairsOf("U+D83C",
          { "U+DD30", "U+DD31", "U+DD32", "U+DD33", "U+DD34", "U+DD35",
            "U+DD36", "U+DD37", "U+DD38", "U+DD39", "U+DD3A", "U+DD3B",
            "U+DD3C", "U+DD3D", "U+DD3E", "U+DD3F", "U+DD40", "U+DD41",
            "U+DD42", "U+DD43", "U+DD44", "U+DD45", "U+DD46", "U+DD47",
            "U+DD48", "U+DD49", "U+DD50", "U+DD51", "U+DD52", "U+DD53",
            "U+DD54", "U+DD55", "U+DD56", "U+DD57", "U+DD58", "U+DD59",
            "U+DD5A", "U+DD5B", "U+DD5C", "U+DD5D", "U+DD5E", "U+DD5F",
            "U+DD60", "U+DD61", "U+DD62", "U+DD63", "U+DD64", "U+DD65",
            "U+DD66", "U+DD67", "U+DD68", "U+DD69", "U+DD70", "U+DD71",
            "U+DD72", "U+DD73", "U+DD74", "U+DD75", "U+DD76", "U+DD77",
            "U+DD78", "U+DD79", "U+DD7A", "U+DD7B", "U+DD7C", "U+DD7D",
            "U+DD7E", "U+DD7F", "U+DD80", "U+DD81", "U+DD82", "U+DD83",
            "U+DD84", "U+DD85", "U+DD86", "U+DD87", "U+DD88", "U+DD89" }) }

\* the code units with the property Case_Ignorable
CaseIgnorableUnits ==
    { "'", ".", ":", "^", "U+0060", "U+00A8", "U+00AD", "U+00AF", "U+00B4",
       "U+00B7", "U+00B8", "U+02B0", "U+02B1", "U+02B2", "U+02B3", "U+02B4",
       "U+02B5", "U+02B6", "U+02B7", "U+02B8", "U+02B9", "U+02BA", "U+02BB",
       "U+02BC", "U+02BD", "U+02BE", "U+02BF", "U+02C0", "U+02C1", "U+02C2",
       "U+02C3", "U+02C4", "U+02C5", "U+02C6", "U+02C7", "U+02C8", "U+02C9",
       "U+02CA", "U+02CB", "U+02CC", "U+02CD", "U+02CE", "U+02CF", "U+02D0",
       "U+02D1", "U+02D2", "U+02D3", "U+02D4", "U+02D5", "U+02D6", "U+02D7",
       "U+02D8", "U+02D9", "U+02DA", "U+02DB", "U+02DC", "U+02DD", "U+02DE",
       "U+02DF", "U+02E0", "U+02E1", "U+02E2", "U+02E3", "U+02E4", "U+02E5",
       "U+02E6", "U+02E7", "U+02E8", "U+02E9", "U+02EA", "U+02EB", "U+02EC",
       "U+02ED", "U+02EE", "U+02EF", "U+02F0", "U+02F1", "U+02F2", "U+02F3",
       "U+02F4", "U+02F5", "U+02F6", "U+02F7", "U+02F8", "U+02F9", "U+02FA",
       "U+02FB", "U+02FC", "U+02FD", "U+02FE", "U+02FF", "U+0300", "U+0301",
       "U+0302", "U+0303", "U+0304", "U+0305", "U+0306", "U+0307", "U+0308",
       "U+0309", "U+030A", "U+030B", "U+030C", "U+030D", "U+030E", "U+030F",
       "U+0310", "U+0311", "U+0312", "U+0313", "U+0314", "U+0315", "U+0316",
       "U+0317", "U+0318", "U+0319", "U+031A", "U+031B", "U+031C", "U+031D",
       "U+031E", "U+031F", "U+0320", "U+0321", "U+0322", "U+0323", "U+0324",
       "U+0325", "U+0326", "U+0327", "U+0328", "U+0329", "U+032A", "U+032B",
       "U+032C", "U+032D", "U+032E", "U+032F", "U+0330", "U+0331", "U+0332",
       "U+0333", "U+0334", "U+0335", "U+0336", "U+0337", "U+0338", "U+0339",
       "U+033A", "U+033B", "U+033C", "U+033D", "U+033E", "U+033F", "U+0340",
       "U+0341", "U+0342", "U+0343", "U+0344", "U+0345", "U+0346", "U+0347",
       "U+0348", "U+0349", "U+034A", "U+034B", "U+034C", "U+034D", "U+034E",
       "U+034F", "U+0350", "U+0351", "U+0352", "U+0353", "U+0354", "U+0355",
       "U+0356", "U+0357", "U+0358", "U+0359", "U+035A", "U+035B", "U+035C",
       "U+035D", "U+035E", "U+035F", "U+0360", "U+0361", "U+0362", "U+0363",
       "U+0364", "U+0365", "U+0366", "U+0367", "U+0368", "U+0369", "U+036A",
       "U+036B", "U+036C", "U+036D", "U+036E", "U+036F", "U+0374", "U+0375",
       "U+037A", "U+0384", "U+0385", "U+0387", "U+0483", "U+0484", "U+0485",
       "U+0486", "U+0487", "U+0488", "U+0489", "U+0559", "U+055F", "U+0591",
       "U+0592", "U+0593", "U+0594", "U+0595", "U+0596", "U+0597", "U+0598",
       "U+0599", "U+059A", "U+059B", "U+059C", "U+059D", "U+059E", "U+059F",
       "U+05A0", "U+05A1", "U+05A2", "U+05A3", "U+05A4", "U+05A5", "U+05A6",
       "U+05A7", "U+05A8", "U+05A9", "U+05AA", "U+05AB", "U+05AC", "U+05AD",
       "U+05AE", "U+05AF", "U+05B0", "U+05B1", "U+05B2", "U+05B3", "U+05B4",
       "U+05B5", "U+05B6", "U+05B7", "U+05B8", "U+05B9", "U+05BA", "U+05BB",
       "U+05BC", "U+05BD", "U+05BF", "U+05C1", "U+05C2", "U+05C4", "U+05C5",
       "U+05C7", "U+05F4", "U+0600", "U+0601", "U+0602", "U+0603", "U+0604",
       "U+0605", "U+0610", "U+0611", "U+0612", "U+0613", "U+0614", "U+0615",
       "U+0616", "U+0617", "U+0618", "U+0619", "U+061A", "U+061C", "U+0640",
       "U+064B", "U+064C", "U+064D", "U+064E", "U+064F", "U+0650", "U+0651",
       "U+0652", "U+0653", "U+0654", "U+0655", "U+0656", "U+0657", "U+0658",
       "U+0659", "U+065A", "U+065B", "U+065C", "U+065D", "U+065E", "U+065F",
       "U+0670", "U+06D6", "U+06D7", "U+06D8", "U+06D9", "U+06DA", "U+06DB",
       "U+06DC", "U+06DD", "U+06DF", "U+06E0", "U+06E1", "U+06E2", "U+06E3",
       "U+06E4", "U+06E5", "U+06E6", "U+06E7", "U+06E8", "U+06EA", "U+06EB",
       "U+06EC", "U+06ED", "U+070F", "U+0711", "U+0730", "U+0731", "U+0732",
       "U+0733", "U+0734", "U+0735", "U+0736", "U+0737", "U+0738", "U+0739",
       "U+073A", "U+073B", "U+073C", "U+073D", "U+073E", "U+073F", "U+0740",
       "U+0741", "U+0742", "U+0743", "U+0744", "U+0745", "U+0746", "U+0747",
       "U+0748", "U+0749", "U+074A", "U+07A6", "U+07A7", "U+07A8", "U+07A9",
       "U+07AA", "U+07AB", "U+07AC", "U+07AD", "U+07AE", "U+07AF", "U+07B0",
       "U+07EB", "U+07EC", "U+07ED", "U+07EE", "U+07EF", "U+07F0", "U+07F1",
       "U+07F2", "U+07F3", "U+07F4", "U+07F5", "U+07FA", "U+07FD", "U+0816",
       "U+0817", "U+0818", "U+0819", "U+081A", "U+081B", "U+081C", "U+081D",
       "U+081E", "U+081F", "U+0820", "U+0821", "U+0822", "U+0823", "U+0824",
       "U+0825", "U+0826", "U+0827", "U+0828", "U+0829", "U+082A", "U+082B",
       "U+082C", "U+082D", "U+0859", "U+085A", "U+085B", "U+0888", "U+0890",
       "U+0891", "U+0897", "U+0898", "U+0899", "U+089A", "U+089B", "U+089C",
       "U+089D", "U+089E", "U+089F", "U+08C9", "U+08CA", "U+08CB", "U+08CC",
       "U+08CD", "U+08CE", "U+08CF", "U+08D0", "U+08D1", "U+08D2", "U+08D3",
       "U+08D4", "U+08D5", "U+08D6", "U+08D7", "U+08D8", "U+08D9", "U+08DA",
       "U+08DB", "U+08DC", "U+08DD", "U+08DE", "U+08DF", "U+08E0", "U+08E1",
       "U+08E2", "U+08E3", "U+08E4", "U+08E5", "U+08E6", "U+08E7", "U+08E8",
       "U+08E9", "U+08EA", "U+08EB", "U+08EC", "U+08ED", "U+08EE", "U+08EF",
       "U+08F0", "U+08F1", "U+08F2", "U+08F3", "U+08F4", "U+08F5", "U+08F6",
       "U+08F7", "U+08F8", "U+08F9", "U+08FA", "U+08FB", "U+08FC", "U+08FD",
       "U+08FE", "U+08FF", "U+0900", "U+0901", "U+0902", "U+093A", "U+093C",
       "U+0941", "U+0942", "U+0943", "U+0944", "U+0945", "U+0946", "U+0947",
       "U+0948", "U+094D", "U+0951", "U+0952", "U+0953", "U+0954", "U+0955",
       "U+0956", "U+0957", "U+0962", "U+0963", "U+0971", "U+0981", "U+09BC",
       "U+09C1", "U+09C2", "U+09C3", "U+09C4", "U+09CD", "U+09E2", "U+09E3",
       "U+09FE", "U+0A01", "U+0A02", "U+0A3C", "U+0A41", "U+0A42", "U+0A47",
       "U+0A48", "U+0A4B", "U+0A4C", "U+0A4D", "U+0A51", "U+0A70", "U+0A71",
       "U+0A75", "U+0A81", "U+0A82", "U+0ABC", "U+0AC1", "U+0AC2", "U+0AC3",
       "U+0AC4", "U+0AC5", "U+0AC7", "U+0AC8", "U+0ACD", "U+0AE2", "U+0AE3",
       "U+0AFA", "U+0AFB", "U+0AFC", "U+0AFD", "U+0AFE", "U+0AFF", "U+0B01",
       "U+0B3C", "U+0B3F", "U+0B41", "U+0B42", "U+0B43", "U+0B44", "U+0B4D",
       "U+0B55", "U+0B56", "U+0B62", "U+0B63", "U+0B82", "U+0BC0", "U+0BCD",
       "U+0C00", "U+0C04", "U+0C3C", "U+0C3E", "U+0C3F", "U+0C40", "U+0C46",
       "U+0C47", "U+0C48", "U+0C4A", "U+0C4B", "U+0C4C", "U+0C4D", "U+0C55",
       "U+0C56", "U+0C62", "U+0C63", "U+0C81", "U+0CBC", "U+0CBF", "U+0CC6",
       "U+0CCC", "U+0CCD", "U+0CE2", "U+0CE3", "U+0D00", "U+0D01", "U+0D3B",
       "U+0D3C", "U+0D41", "U+0D42", "U+0D43", "U+0D44", "U+0D4D", "U+0D62",
       "U+0D63", "U+0D81", "U+0DCA", "U+0DD2", "U+0DD3", "U+0DD4", "U+0DD6",
       "U+0E31", "U+0E34", "U+0E35", "U+0E36", "U+0E37", "U+0E38", "U+0E39",
       "U+0E3A", "U+0E46", "U+0E47", "U+0E48", "U+0E49", "U+0E4A", "U+0E4B",
       "U+0E4C", "U+0E4D", "U+0E4E", "U+0EB1", "U+0EB4", "U+0EB5", "U+0EB6",
       "U+0EB7", "U+0EB8", "U+0EB9", "U+0EBA", "U+0EBB", "U+0EBC", "U+0EC6",
       "U+0EC8", "U+0EC9", "U+0ECA", "U+0ECB", "U+0ECC", "U+0ECD", "U+0ECE",
       "U+0F18", "U+0F19", "U+0F35", "U+0F37", "U+0F39", "U+0F71", "U+0F72",
       "U+0F73", "U+0F74", "U+0F75", "U+0F76", "U+0F77", "U+0F78", "U+0F79",
       "U+0F7A", "U+0F7B", "U+0F7C", "U+0F7D", "U+0F7E", "U+0F80", "U+0F81",
       "U+0F82", "U+0F83", "U+0F84", "U+0F86", "U+0F87", "U+0F8D", "U+0F8E",
       "U+0F8F", "U+0F90", "U+0F91", "U+0F92", "U+0F93", "U+0F94", "U+0F95",
       "U+0F96", "U+0F97", "U+0F99", "U+0F9A", "U+0F9B", "U+0F9C", "U+0F9D",
       "U+0F9E", "U+0F9F", "U+0FA0", "U+0FA1", "U+0FA2", "U+0FA3", "U+0FA4",
       "U+0FA5", "U+0FA6", "U+0FA7", "U+0FA8", "U+0FA9", "U+0FAA", "U+0FAB",
       "U+0FAC", "U+0FAD", "U+0FAE", "U+0FAF", "U+0FB0", "U+0FB1", "U+0FB2",
       "U+0FB3", "U+0FB4", "U+0FB5", "U+0FB6", "U+0FB7", "U+0FB8", "U+0FB9",
       "U+0FBA", "U+0FBB", "U+0FBC", "U+0FC6", "U+102D", "U+102E", "U+102F",
       "U+1030", "U+1032", "U+1033", "U+1034", "U+1035", "U+1036", "U+1037",
       "U+1039", "U+103A", "U+103D", "U+103E", "U+1058", "U+1059", "U+105E",
       "U+105F", "U+1060", "U+1071", "U+1072", "U+1073", "U+1074", "U+1082",
       "U+1085", "U+1086", "U+108D", "U+109D", "U+10FC", "U+135D", "U+135E",
       "U+135F", "U+1712", "U+1713", "U+1714", "U+1732", "U+1733", "U+1752",
       "U+1753", "U+1772", "U+1773", "U+17B4", "U+17B5", "U+17B7", "U+17B8",
       "U+17B9", "U+17BA", "U+17BB", "U+17BC", "U+17BD", "U+17C6", "U+17C9",
       "U+17CA", "U+17CB", "U+17CC", "U+17CD", "U+17CE", "U+17CF", "U+17D0",
       "U+17D1", "U+17D2", "U+17D3", "U+17D7", "U+17DD", "U+180B", "U+180C",
       "U+180D", "U+180E", "U+180F", "U+1843", "U+1885", "U+1886", "U+18A9",
       "U+1920", "U+1921", "U+1922", "U+1927", "U+1928", "U+1932", "U+1939",
       "U+193A", "U+193B", "U+1A17", "U+1A18", "U+1A1B", "U+1A56", "U+1A58",
       "U+1A59", "U+1A5A", "U+1A5B", "U+1A5C", "U+1A5D", "U+1A5E", "U+1A60",
       "U+1A62", "U+1A65", "U+1A66", "U+1A67", "U+1A68", "U+1A69", "U+1A6A",
       "U+1A6B", "U+1A6C", "U+1A73", "U+1A74", "U+1A75", "U+1A76", "U+1A77",
       "U+1A78", "U+1A79", "U+1A7A", "U+1A7B", "U+1A7C", "U+1A7F", "U+1AA7",
       "U+1AB0", "U+1AB1", "U+1AB2", "U+1AB3", "U+1AB4", "U+1AB5", "U+1AB6",
       "U+1AB7", "U+1AB8", "U+1AB9", "U+1ABA", "U+1ABB", "U+1ABC", "U+1ABD",
       "U+1ABE", "U+1ABF", "U+1AC0", "U+1AC1", "U+1AC2", "U+1AC3", "U+1AC4",
       "U+1AC5", "U+1AC6", "U+1AC7", "U+1AC8", "U+1AC9", "U+1ACA", "U+1ACB",
       "U+1ACC", "U+1ACD", "U+1ACE", "U+1ACF", "U+1AD0", "U+1AD1", "U+1AD2",
       "U+1AD3", "U+1AD4", "U+1AD5", "U+1AD6", "U+1AD7", "U+1AD8", "U+1AD9",
       "U+1ADA", "U+1ADB", "U+1ADC", "U+1ADD", "U+1AE0", "U+1AE1", "U+1AE2",
       "U+1AE3", "U+1AE4", "U+1AE5", "U+1AE6", "U+1AE7", "U+1AE8", "U+1AE9",
       "U+1AEA", "U+1AEB", "U+1B00", "U+1B01", "U+1B02", "U+1B03", "U+1B34",
       "U+1B36", "U+1B37", "U+1B38", "U+1B39", "U+1B3A", "U+1B3C", "U+1B42",
       "U+1B6B", "U+1B6C", "U+1B6D", "U+1B6E", "U+1B6F", "U+1B70", "U+1B71",
       "U+1B72", "U+1B73", "U+1B80", "U+1B81", "U+1BA2", "U+1BA3", "U+1BA4",
       "U+1BA5", "U+1BA8", "U+1BA9", "U+1BAB", "U+1BAC", "U+1BAD", "U+1BE6",
       "U+1BE8", "U+1BE9", "U+1BED", "U+1BEF", "U+1BF0", "U+1BF1", "U+1C2C",
       "U+1C2D", "U+1C2E", "U+1C2F", "U+1C30", "U+1C31", "U+1C32", "U+1C33",
       "U+1C36", "U+1C37", "U+1C78", "U+1C79", "U+1C7A", "U+1C7B", "U+1C7C",
       "U+1C7D", "U+1CD0", "U+1CD1", "U+1CD2", "U+1CD4", "U+1CD5", "U+1CD6",
       "U+1CD7", "U+1CD8", "U+1CD9", "U+1CDA", "U+1CDB", "U+1CDC", "U+1CDD",
       "U+1CDE", "U+1CDF", "U+1CE0", "U+1CE2", "U+1CE3", "U+1CE4", "U+1CE5",
       "U+1CE6", "U+1CE7", "U+1CE8", "U+1CED", "U+1CF4", "U+1CF8", "U+1CF9",
       "U+1D2C", "U+1D2D", "U+1D2E", "U+1D2F", "U+1D30", "U+1D31", "U+1D32",
       "U+1D33", "U+1D34", "U+1D35", "U+1D36", "U+1D37", "U+1D38", "U+1D39",
       "U+1D3A", "U+1D3B", "U+1D3C", "U+1D3D", "U+1D3E", "U+1D3F", "U+1D40",
       "U+1D41", "U+1D42", "U+1D43", "U+1D44", "U+1D45", "U+1D46", "U+1D47",
       "U+1D48", "U+1D49", "U+1D4A", "U+1D4B", "U+1D4C", "U+1D4D", "U+1D4E",
       "U+1D4F", "U+1D50", "U+1D51", "U+1D52", "U+1D53", "U+1D54", "U+1D55",
       "U+1D56", "U+1D57", "U+1D58", "U+1D59", "U+1D5A", "U+1D5B", "U+1D5C",
       "U+1D5D", "U+1D5E", "U+1D5F", "U+1D60", "U+1D61", "U+1D62", "U+1D63",
       "U+1D64", "U+1D65", "U+1D66", "U+1D67", "U+1D68", "U+1D69", "U+1D6A",
       "U+1D78", "U+1D9B", "U+1D9C", "U+1D9D", "U+1D9E", "U+1D9F", "U+1DA0",
       "U+1DA1", "U+1DA2", "U+1DA3", "U+1DA4", "U+1DA5", "U+1DA6", "U+1DA7",
       "U+1DA8", "U+1DA9", "U+1DAA", "U+1DAB", "U+1DAC", "U+1DAD", "U+1DAE",
       "U+1DAF", "U+1DB0", "U+1DB1", "U+1DB2", "U+1DB3", "U+1DB4", "U+1DB5",
       "U+1DB6", "U+1DB7", "U+1DB8", "U+1DB9", "U+1DBA", "U+1DBB", "U+1DBC",
       "U+1DBD", "U+1DBE", "U+1DBF", "U+1DC0", "U+1DC1", "U+1DC2", "U+1DC3",
       "U+1DC4", "U+1DC5", "U+1DC6", "U+1DC7", "U+1DC8", "U+1DC9", "U+1DCA",
       "U+1DCB", "U+1DCC", "U+1DCD", "U+1DCE", "U+1DCF", "U+1DD0", "U+1DD1",
       "U+1DD2", "U+1DD3", "U+1DD4", "U+1DD5", "U+1DD6", "U+1DD7", "U+1DD8",
       "U+1DD9", "U+1DDA", "U+1DDB", "U+1DDC", "U+1DDD", "U+1DDE", "U+1DDF",
       "U+1DE0", "U+1DE1", "U+1DE2", "U+1DE3", "U+1DE4", "U+1DE5", "U+1DE6",
       "U+1DE7", "U+1DE8", "U+1DE9", "U+1DEA", "U+1DEB", "U+1DEC", "U+1DED",
       "U+1DEE", "U+1DEF", "U+1DF0", "U+1DF1", "U+1DF2", "U+1DF3", "U+1DF4",
       "U+1DF5", "U+1DF6", "U+1DF7", "U+1DF8", "U+1DF9", "U+1DFA", "U+1DFB",
       "U+1DFC", "U+1DFD", "U+1DFE", "U+1DFF", "U+1FBD", "U+1FBF", "U+1FC0",
       "U+1FC1", "U+1FCD", "U+1FCE", "U+1FCF", "U+1FDD", "U+1FDE", "U+1FDF",
       "U+1FED", "U+1FEE", "U+1FEF", "U+1FFD", "U+1FFE", "U+200B", "U+200C",
       "U+200D", "U+200E", "U+200F", "U+2018", "U+2019", "U+2024", "U+2027",
       "U+202A", "U+202B", "U+202C", "U+202D", "U+202E", "U+2060", "U+2061",
       "U+2062", "U+2063", "U+2064", "U+2066", "U+2067", "U+2068", "U+2069",
       "U+206A", "U+206B", "U+206C", "U+206D", "U+206E", "U+206F", "U+2071",
       "U+207F", "U+2090", "U+2091", "U+2092", "U+2093", "U+2094", "U+2095",
       "U+2096", "U+2097", "U+2098", "U+2099", "U+209A", "U+209B", "U+209C",
       "U+20D0", "U+20D1", "U+20D2", "U+20D3", "U+20D4", "U+20D5", "U+20D6",
       "U+20D7", "U+20D8", "U+20D9", "U+20DA", "U+20DB", "U+20DC", "U+20DD",
       "U+20DE", "U+20DF", "U+20E0", "U+20E1", "U+20E2", "U+20E3", "U+20E4",
       "U+20E5", "U+20E6", "U+20E7", "U+20E8", "U+20E9", "U+20EA", "U+20EB",
       "U+20EC", "U+20ED", "U+20EE", "U+20EF", "U+20F0", "U+2C7C", "U+2C7D",
       "U+2CEF", "U+2CF0", "U+2CF1", "U+2D6F", "U+2D7F", "U+2DE0", "U+2DE1",
       "U+2DE2", "U+2DE3", "U+2DE4", "U+2DE5", "U+2DE6", "U+2DE7", "U+2DE8",
       "U+2DE9", "U+2DEA", "U+2DEB", "U+2DEC", "U+2DED", "U+2DEE", "U+2DEF",
       "U+2DF0", "U+2DF1", "U+2DF2", "U+2DF3", "U+2DF4", "U+2DF5", "U+2DF6",
       "U+2DF7", "U+2DF8", "U+2DF9", "U+2DFA", "U+2DFB", "U+2DFC", "U+2DFD",
       "U+2DFE", "U+2DFF", "U+2E2F", "U+3005", "U+302A", "U+302B", "U+302C",
       "U+302D", "U+3031", "U+3032", "U+3033", "U+3034", "U+3035", "U+303B",
       "U+3099", "U+309A", "U+309B", "U+309C", "U+309D", "U+309E", "U+30FC",
       "U+30FD", "U+30FE", "U+A015", "U+A4F8", "U+A4F9", "U+A4FA", "U+A4FB",
       "U+A4FC", "U+A4FD", "U+A60C", "U+A66F", "U+A670", "U+A671", "U+A672",
       "U+A674", "U+A675", "U+A676", "U+A677", "U+A678", "U+A679", "U+A67A",
       "U+A67B", "U+A67C", "U+A67D", "U+A67F", "U+A69C", "U+A69D", "U+A69E",
       "U+A69F", "U+A6F0", "U+A6F1", "U+A700", "U+A701", "U+A702", "U+A703",
       "U+A704", "U+A705", "U+A706", "U+A707", "U+A708", "U+A709", "U+A70A",
       "U+A70B", "U+A70C", "U+A70D", "U+A70E", "U+A70F", "U+A710", "U+A711",
       "U+A712", "U+A713", "U+A714", "U+A715", "U+A716", "U+A717", "U+A718",
       "U+A719", "U+A71A", "U+A71B", "U+A71C", "U+A71D", "U+A71E", "U+A71F",
       "U+A720", "U+A721", "U+A770", "U+A788", "U+A789", "U+A78A", "U+A7F1",
       "U+A7F2", "U+A7F3", "U+A7F4", "U+A7F8", "U+A7F9", "U+A802", "U+A806",
       "U+A80B", "U+A825", "U+A826", "U+A82C", "U+A8C4", "U+A8C5", "U+A8E0",
       "U+A8E1", "U+A8E2", "U+A8E3", "U+A8E4", "U+A8E5", "U+A8E6", "U+A8E7",
       "U+A8E8", "U+A8E9", "U+A8EA", "U+A8EB", "U+A8EC", "U+A8ED", "U+A8EE",
       "U+A8EF", "U+A8F0", "U+A8F1", "U+A8FF", "U+A926", "U+A927", "U+A928",
       "U+A929", "U+A92A", "U+A92B", "U+A92C", "U+A92D", "U+A947", "U+A948",
       "U+A949", "U+A94A", "U+A94B", "U+A94C", "U+A94D", "U+A94E", "U+A94F",
       "U+A950", "U+A951", "U+A980", "U+A981", "U+A982", "U+A9B3", "U+A9B6",
       "U+A9B7", "U+A9B8", "U+A9B9", "U+A9BC", "U+A9BD", "U+A9CF", "U+A9E5",
       "U+A9E6", "U+AA29", "U+AA2A", "U+AA2B", "U+AA2C", "U+AA2D", "U+AA2E",
       "U+AA31", "U+AA32", "U+AA35", "U+AA36", "U+AA43", "U+AA4C", "U+AA70",
       "U+AA7C", "U+AAB0", "U+AAB2", "U+AAB3", "U+AAB4", "U+AAB7", "U+AAB8",
       "U+AABE", "U+AABF", "U+AAC1", "U+AADD", "U+AAEC", "U+AAED", "U+AAF3",
       "U+AAF4", "U+AAF6", "U+AB5B", "U+AB5C", "U+AB5D", "U+AB5E", "U+AB5F",
       "U+AB69", "U+AB6A", "U+AB6B", "U+ABE5", "U+ABE8", "U+ABED", "U+FB1E",
       "U+FBB2", "U+FBB3", "U+FBB4", "U+FBB5", "U+FBB6", "U+FBB7", "U+FBB8",
       "U+FBB9", "U+FBBA", "U+FBBB", "U+FBBC", "U+FBBD", "U+FBBE", "U+FBBF",
       "U+FBC0", "U+FBC1", "U+FBC2", "U+FE00", "U+FE01", "U+FE02", "U+FE03",
       "U+FE04", "U+FE05", "U+FE06", "U+FE07", "U+FE08", "U+FE09", "U+FE0A",
       "U+FE0B", "U+FE0C", "U+FE0D", "U+FE0E", "U+FE0F", "U+FE13", "U+FE20",
       "U+FE21", "U+FE22", "U+FE23", "U+FE24", "U+FE25", "U+FE26", "U+FE27",
       "U+FE28", "U+FE29", "U+FE2A", "U+FE2B", "U+FE2C", "U+FE2D", "U+FE2E",
       "U+FE2F", "U+FE52", "U+FE55", "U+FEFF", "U+FF07", "U+FF0E", "U+FF1A",
       "U+FF3E", "U+FF40", "U+FF70", "U+FF9E", "U+FF9F", "U+FFE3", "U+FFF9",
       "U+FFFA", "U+FFFB" }

\* the surrogate pairs with the property Case_Ignorable
CaseIgnorablePairs ==
    UNION {
      PairsOf("U+D800",
          { "U+DDFD", "U+DEE0", "U+DF76", "U+DF77", "U+DF78", "U+DF79",
            "U+DF7A" }),
      PairsOf("U+D801",
          { "U+DF80", "U+DF81", "U+DF82", "U+DF83", "U+DF84", "U+DF85",
            "U+DF87", "U+DF88", "U+DF89", "U+DF8A", "U+DF8B", "U+DF8C",
            "U+DF8D", "U+DF8E", "U+DF8F", "U+DF90", "U+DF91", "U+DF92",
            "U+DF93", "U+DF94", "U+DF95", "U+DF96", "U+DF97", "U+DF98",
            "U+DF99", "U+DF9A", "U+DF9B", "U+DF9C", "U+DF9D", "U+DF9E",
            "U+DF9F", "U+DFA0", "U+DFA1", "U+DFA2", "U+DFA3", "U+DFA4",
            "U+DFA5", "U+DFA6", "U+DFA7", "U+DFA8", "U+DFA9", "U+DFAA",
            "U+DFAB", "U+DFAC", "U+DFAD", "U+DFAE", "U+DFAF", "U+DFB0",
            "U+DFB2", "U+DFB3", "U+DFB4", "U+DFB5", "U+DFB6", "U+DFB7",
            "U+DFB8", "U+DFB9", "U+DFBA" }),
      PairsOf("U+D802",
          { "U+DE01", "U+DE02", "U+DE03", "U+DE05", "U+DE06", "U+DE0C",
            "U+DE0D", "U+DE0E", "U+DE0F", "U+DE38", "U+DE39", "U+DE3A",
            "U+DE3F", "U+DEE5", "U+DEE6" }),
      PairsOf("U+D803",
          { "U+DD24", "U+DD25", "U+DD26", "U+DD27", "U+DD4E", "U+DD69",
            "U+DD6A", "U+DD6B", "U+DD6C", "U+DD6D", "U+DD6F", "U+DEAB",
            "U+DEAC", "U+DEC5", "U+DEFA", "U+DEFB", "U+DEFC", "U+DEFD",
            "U+DEFE", "U+DEFF", "U+DF46", "U+DF47", "U+DF48", "U+DF49",
            "U+DF4A", "U+DF4B", "U+DF4C", "U+DF4D", "U+DF4E", "U+DF4F",
            "U+DF50", "U+DF82", "U+DF83", "U+DF84", "U+DF85" }),
      PairsOf("U+D804",
          { "U+DC01", "U+DC38", "U+DC39", "U+DC3A", "U+DC3B", "U+DC3C",
            "U+DC3D", "U+DC3E", "U+DC3F", "U+DC40", "U+DC41", "U+DC42",
            "U+DC43", "U+DC44", "U+DC45", "U+DC46", "U+DC70", "U+DC73",
            "U+DC74", "U+DC7F", "U+DC80", "U+DC81", "U+DCB3", "U+DCB4",
            "U+DCB5", "U+DCB6", "U+DCB9", "U+DCBA", "U+DCBD", "U+DCC2",
            "U+DCCD", "U+DD00", "U+DD01", "U+DD02", "U+DD27", "U+DD28",
            "U+DD29", "U+DD2A", "U+DD2B", "U+DD2D", "U+DD2E", "U+DD2F",
            "U+DD30", "U+DD31", "U+DD32", "U+DD33", "U+DD34", "U+DD73",
            "U+DD80", "U+DD81", "U+DDB6", "U+DDB7", "U+DDB8", "U+DDB9",
            "U+DDBA", "U+DDBB", "U+DDBC", "U+DDBD", "U+DDBE", "U+DDC9",
            "U+DDCA", "U+DDCB", "U+DDCC", "U+DDCF", "U+DE2F", "U+DE30",
            "U+DE31", "U+DE34", "U+DE36", "U+DE37", "U+DE3E", "U+DE41",
            "U+DEDF", "U+DEE3", "U+DEE4", "U+DEE5", "U+DEE6", "U+DEE7",
            "U+DEE8", "U+DEE9", "U+DEEA", "U+DF00", "U+DF01", "U+DF3B",
            "U+DF3C", "U+DF40", "U+DF66", "U+DF67", "U+DF68", "U+DF69",
            "U+DF6A", "U+DF6B", "U+DF6C", "U+DF70", "U+DF71", "U+DF72",
            "U+DF73", "U+DF74", "U+DFBB", "U+DFBC", "U+DFBD", "U+DFBE",
            "U+DFBF", "U+DFC0", "U+DFCE", "U+DFD0", "U+DFD2", "U+DFE1",
            "U+DFE2" }),
      PairsOf("U+D805",
          { "U+DC38", "U+DC39", "U+DC3A", "U+DC3B", "U+DC3C", "U+DC3D",
            "U+DC3E", "U+DC3F", "U+DC42", "U+DC43", "U+DC44", "U+DC46",
            "U+DC5E", "U+DCB3", "U+DCB4", "U+DCB5", "U+DCB6", "U+DCB7",
            "U+DCB8", "U+DCBA", "U+DCBF", "U+DCC0", "U+DCC2", "U+DCC3",
            "U+DDB2", "U+DDB3", "U+DDB4", "U+DDB5", "U+DDBC", "U+DDBD",
            "U+DDBF", "U+DDC0", "U+DDDC", "U+DDDD", "U+DE33", "U+DE34",
            "U+DE35", "U+DE36", "U+DE37", "U+DE38", "U+DE39", "U+DE3A",
            "U+DE3D", "U+DE3F", "U+DE40", "U+DEAB", "U+DEAD", "U+DEB0",
            "U+DEB1", "U+DEB2", "U+DEB3", "U+DEB4", "U+DEB5", "U+DEB7",
            "U+DF1D", "U+DF1F", "U+DF22", "U+DF23", "U+DF24", "U+DF25",
            "U+DF27", "U+DF28", "U+DF29", "U+DF2A", "U+DF2B" }),
      PairsOf("U+D806",
          { "U+DC2F", "U+DC30", "U+DC31", "U+DC32", "U+DC33", "U+DC34",
            "U+DC35", "U+DC36", "U+DC37", "U+DC39", "U+DC3A", "U+DD3B",
            "U+DD3C", "U+DD3E", "U+DD43", "U+DDD4", "U+DDD5", "U+DDD6",
            "U+DDD7", "U+DDDA", "U+DDDB", "U+DDE0", "U+DE01", "U+DE02",
            "U+DE03", "U+DE04", "U+DE05", "U+DE06", "U+DE07", "U+DE08",
            "U+DE09", "U+DE0A", "U+DE33", "U+DE34", "U+DE35", "U+DE36",
            "U+DE37", "U+DE38", "U+DE3B", "U+DE3C", "U+DE3D", "U+DE3E",
            "U+DE47", "U+DE51", "U+DE52", "U+DE53", "U+DE54", "U+DE55",
            "U+DE56", "U+DE59", "U+DE5A", "U+DE5B", "U+DE8A", "U+DE8B",
            "U+DE8C", "U+DE8D", "U+DE8E", "U+DE8F", "U+DE90", "U+DE91",
            "U+DE92", "U+DE93", "U+DE94", "U+DE95", "U+DE96", "U+DE98",
            "U+DE99", "U+DF60", "U+DF62", "U+DF63", "U+DF64", "U+DF66" }),
      PairsOf("U+D807",
          { "U+DC30", "U+DC31", "U+DC32", "U+DC33", "U+DC34", "U+DC35",
            "U+DC36", "U+DC38", "U+DC39", "U+DC3A", "U+DC3B", "U+DC3C",
            "U+DC3D", "U+DC3F", "U+DC92", "U+DC93", "U+DC94", "U+DC95",
            "U+DC96", "U+DC97", "U+DC98", "U+DC99", "U+DC9A", "U+DC9B",
            "U+DC9C", "U+DC9D", "U+DC9E", "U+DC9F", "U+DCA0", "U+DCA1",
            "U+DCA2", "U+DCA3", "U+DCA4", "U+DCA5", "U+DCA6", "U+DCA7",
            "U+DCAA", "U+DCAB", "U+DCAC", "U+DCAD", "U+DCAE", "U+DCAF",
            "U+DCB0", "U+DCB2", "U+DCB3", "U+DCB5", "U+DCB6", "U+DD31",
            "U+DD32", "U+DD33", "U+DD34", "U+DD35", "U+DD36", "U+DD3A",
            "U+DD3C", "U+DD3D", "U+DD3F", "U+DD40", "U+DD41", "U+DD42",
            "U+DD43", "U+DD44", "U+DD45", "U+DD47", "U+DD90", "U+DD91",
            "U+DD95", "U+DD97", "U+DDD9", "U+DEF3", "U+DEF4", "U+DF00",
            "U+DF01", "U+DF36", "U+DF37", "U+DF38", "U+DF39", "U+DF3A",
            "U+DF40", "U+DF42", "U+DF5A" }),
      PairsOf("U+D80D",
          { "U+DC30", "U+DC31", "U+DC32", "U+DC33", "U+DC34", "U+DC35",
            "U+DC36", "U+DC37", "U+DC38", "U+DC39", "U+DC3A", "U+DC3B",
            "U+DC3C", "U+DC3D", "U+DC3E", "U+DC3F", "U+DC40", "U+DC47",
            "U+DC48", "U+DC49", "U+DC4A", "U+DC4B", "U+DC4C", "U+DC4D",
            "U+DC4E", "U+DC4F", "U+DC50", "U+DC51", "U+DC52", "U+DC53",
            "U+DC54", "U+DC55" }),
      PairsOf("U+D818",
          { "U+DD1E", "U+DD1F", "U+DD20", "U+DD21", "U+DD22", "U+DD23",
            "U+DD24", "U+DD25", "U+DD26", "U+DD27", "U+DD28", "U+DD29",
            "U+DD2D", "U+DD2E", "U+DD2F" }),
      PairsOf("U+D81A",
          { "U+DEF0", "U+DEF1", "U+DEF2", "U+DEF3", "U+DEF4", "U+DF30",
            "U+DF31", "U+DF32", "U+DF33", "U+DF34", "U+DF35", "U+DF36",
            "U+DF40", "U+DF41", "U+DF42", "U+DF43" }),
      PairsOf("U+D81B",
          { "U+DD40", "U+DD41", "U+DD42", "U+DD6B", "U+DD6C", "U+DF4F",
            "U+DF8F", "U+DF90", "U+DF91", "U+DF92", "U+DF93", "U+DF94",
            "U+DF95", "U+DF96", "U+DF97", "U+DF98", "U+DF99", "U+DF9A",
            "U+DF9B", "U+DF9C", "U+DF9D", "U+DF9E", "U+DF9F", "U+DFE0",
            "U+DFE1", "U+DFE3", "U+DFE4", "U+DFF2", "U+DFF3" }),
      PairsOf("U+D82B",
          { "U+DFF0", "U+DFF1", "U+DFF2", "U+DFF3", "U+DFF5", "U+DFF6",
            "U+DFF7", "U+DFF8", "U+DFF9", "U+DFFA", "U+DFFB", "U+DFFD",
            "U+DFFE" }),
      PairsOf("U+D82F",
          { "U+DC9D", "U+DC9E", "U+DCA0", "U+DCA1", "U+DCA2", "U+DCA3" }),
      PairsOf("U+D833",
          { "U+DF00", "U+DF01", "U+DF02", "U+DF03", "U+DF04", "U+DF05",
            "U+DF06", "U+DF07", "U+DF08", "U+DF09", "U+DF0A", "U+DF0B",
            "U+DF0C", "U+DF0D", "U+DF0E", "U+DF0F", "U+DF10", "U+DF11",
            "U+DF12", "U+DF13", "U+DF14", "U+DF15", "U+DF16", "U+DF17",
            "U+DF18", "U+DF19", "U+DF1A", "U+DF1B", "U+DF1C", "U+DF1D",
            "U+DF1E", "U+DF1F", "U+DF20", "U+DF21", "U+DF22", "U+DF23",
            "U+DF24", "U+DF25", "U+DF26", "U+DF27", "U+DF28", "U+DF29",
            "U+DF2A", "U+DF2B", "U+DF2C", "U+DF2D", "U+DF30", "U+DF31",
            "U+DF32", "U+DF33", "U+DF34", "U+DF35", "U+DF36", "U+DF37",
            "U+DF38", "U+DF39", "U+DF3A", "U+DF3B", "U+DF3C", "U+DF3D",
            "U+DF3E", "U+DF3F", "U+DF40", "U+DF41", "U+DF42", "U+DF43",
            "U+DF44", "U+DF45", "U+DF46" }),
      PairsOf("U+D834",
          { "U+DD67", "U+DD68", "U+DD69", "U+DD73", "U+DD74", "U+DD75",
            "U+DD76", "U+DD77", "U+DD78", "U+DD79", "U+DD7A", "U+DD7B",
            "U+DD7C", "U+DD7D", "U+DD7E", "U+DD7F", "U+DD80", "U+DD81",
            "U+DD82", "U+DD85", "U+DD86", "U+DD87", "U+DD88", "U+DD89",
            "U+DD8A", "U+DD8B", "U+DDAA", "U+DDAB", "U+DDAC", "U+DDAD",
            "U+DE42", "U+DE43", "U+DE44" }),
      PairsOf("U+D836",
          { "U+DE00", "U+DE01", "U+DE02", "U+DE03", "U+DE04", "U+DE05",
            "U+DE06", "U+DE07", "U+DE08", "U+DE09", "U+DE0A", "U+DE0B",
            "U+DE0C", "U+DE0D", "U+DE0E", "U+DE0F", "U+DE10", "U+DE11",
            "U+DE12", "U+DE13", "U+DE14", "U+DE15", "U+DE16", "U+DE17",
            "U+DE18", "U+DE19", "U+DE1A", "U+DE1B", "U+DE1C", "U+DE1D",
            "U+DE1E", "U+DE1F", "U+DE20", "U+DE21", "U+DE22", "U+DE23",
            "U+DE24", "U+DE25", "U+DE26", "U+DE27", "U+DE28", "U+DE29",
            "U+DE2A", "U+DE2B", "U+DE2C", "U+DE2D", "U+DE2E", "U+DE2F",
            "U+DE30", "U+DE31", "U+DE32", "U+DE33", "U+DE34", "U+DE35",
            "U+DE36", "U+DE3B", "U+DE3C", "U+DE3D", "U+DE3E", "U+DE3F",
            "U+DE40", "U+DE41", "U+DE42", "U+DE43", "U+DE44", "U+DE45",
            "U+DE46", "U+DE47", "U+DE48", "U+DE49", "U+DE4A", "U+DE4B",
            "U+DE4C", "U+DE4D", "U+DE4E", "U+DE4F", "U+DE50", "U+DE51",
            "U+DE52", "U+DE53", "U+DE54", "U+DE55", "U+DE56", "U+DE57",
            "U+DE58", "U+DE59", "U+DE5A", "U+DE5B", "U+DE5C", "U+DE5D",
            "U+DE5E", "U+DE5F", "U+DE60", "U+DE61", "U+DE62", "U+DE63",
            "U+DE64", "U+DE65", "U+DE66", "U+DE67", "U+DE68", "U+DE69",
            "U+DE6A", "U+DE6B", "U+DE6C", "U+DE75", "U+DE84", "U+DE9B",
            "U+DE9C", "U+DE9D", "U+DE9E", "U+DE9F", "U+DEA1", "U+DEA2",
            "U+DEA3", "U+DEA4", "U+DEA5", "U+DEA6", "U+DEA7", "U+DEA8",
            "U+DEA9", "U+DEAA", "U+DEAB", "U+DEAC", "U+DEAD", "U+DEAE",
            "U+DEAF" }),
      PairsOf("U+D838",
          { "U+DC00", "U+DC01", "U+DC02", "U+DC03", "U+DC04", "U+DC05",
            "U+DC06", "U+DC08", "U+DC09", "U+DC0A", "U+DC0B", "U+DC0C",
            "U+DC0D", "U+DC0E", "U+DC0F", "U+DC10", "U+DC11", "U+DC12",
            "U+DC13", "U+DC14", "U+DC15", "U+DC16", "U+DC17", "U+DC18",
            "U+DC1B", "U+DC1C", "U+DC1D", "U+DC1E", "U+DC1F", "U+DC20",
            "U+DC21", "U+DC23", "U+DC24", "U+DC26", "U+DC27", "U+DC28",
            "U+DC29", "U+DC2A", "U+DC30", "U+DC31", "U+DC32", "U+DC33",
            "U+DC34", "U+DC35", "U+DC36", "U+DC37", "U+DC38", "U+DC39",
            "U+DC3A", "U+DC3B", "U+DC3C", "U+DC3D", "U+DC3E", "U+DC3F",
            "U+DC40", "U+DC41", "U+DC42", "U+DC43", "U+DC44", "U+DC45",
            "U+DC46", "U+DC47", "U+DC48", "U+DC49", "U+DC4A", "U+DC4B",
            "U+DC4C", "U+DC4D", "U+DC4E", "U+DC4F", "U+DC50", "U+DC51",
            "U+DC52", "U+DC53", "U+DC54", "U+DC55", "U+DC56", "U+DC57",
            "U+DC58", "U+DC59", "U+DC5A", "U+DC5B", "U+DC5C", "U+DC5D",
            "U+DC5E", "U+DC5F", "U+DC60", "U+DC61", "U+DC62", "U+DC63",
            "U+DC64", "U+DC65", "U+DC66", "U+DC67", "U+DC68", "U+DC69",
            "U+DC6A", "U+DC6B", "U+DC6C", "U+DC6D", "U+DC8F", "U+DD30",
            "U+DD31", "U+DD32", "U+DD33", "U+DD34", "U+DD35", "U+DD36",
            "U+DD37", "U+DD38", "U+DD39", "U+DD3A", "U+DD3B", "U+DD3C",
            "U+DD3D", "U+DEAE", "U+DEEC", "U+DEED", "U+DEEE", "U+DEEF" }),
      PairsOf("U+D839",
          { "U+DCEB", "U+DCEC", "U+DCED", "U+DCEE", "U+DCEF", "U+DDEE",
            "U+DDEF", "U+DEE3", "U+DEE6", "U+DEEE", "U+DEEF", "U+DEF5",
            "U+DEFF" }),
      PairsOf("U+D83A",
          { "U+DCD0", "U+DCD1", "U+DCD2", "U+DCD3", "U+DCD4", "U+DCD5",
            "U+DCD6", "U+DD44", "U+DD45", "U+DD46", "U+DD47", "U+DD48",
            "U+DD49", "U+DD4A", "U+DD4B" }),
      PairsOf("U+D83C",
          { "U+DFFB", "U+DFFC", "U+DFFD", "U+DFFE", "U+DFFF" }),
      PairsOf("U+DB40",
          { "U+DC01", "U+DC20", "U+DC21", "U+DC22", "U+DC23", "U+DC24",
            "U+DC25", "U+DC26", "U+DC27", "U+DC28", "U+DC29", "U+DC2A",
            "U+DC2B", "U+DC2C", "U+DC2D", "U+DC2E", "U+DC2F", "U+DC30",
            "U+DC31", "U+DC32", "U+DC33", "U+DC34", "U+DC35", "U+DC36",
            "U+DC37", "U+DC38", "U+DC39", "U+DC3A", "U+DC3B", "U+DC3C",
            "U+DC3D", "U+DC3E", "U+DC3F", "U+DC40", "U+DC41", "U+DC42",
            "U+DC43", "U+DC44", "U+DC45", "U+DC46", "U+DC47", "U+DC48",
            "U+DC49", "U+DC4A", "U+DC4B", "U+DC4C", "U+DC4D", "U+DC4E",
            "U+DC4F", "U+DC50", "U+DC51", "U+DC52", "U+DC53", "U+DC54",
            "U+DC55", "U+DC56", "U+DC57", "U+DC58", "U+DC59", "U+DC5A",
            "U+DC5B", "U+DC5C", "U+DC5D", "U+DC5E", "U+DC5F", "U+DC60",
            "U+DC61", "U+DC62", "U+DC63", "U+DC64", "U+DC65", "U+DC66",
            "U+DC67", "U+DC68", "U+DC69", "U+DC6A", "U+DC6B", "U+DC6C",
            "U+DC6D", "U+DC6E", "U+DC6F", "U+DC70", "U+DC71", "U+DC72",
            "U+DC73", "U+DC74", "U+DC75", "U+DC76", "U+DC77", "U+DC78",
            "U+DC79", "U+DC7A", "U+DC7B", "U+DC7C", "U+DC7D", "U+DC7E",
            "U+DC7F", "U+DD00", "U+DD01", "U+DD02", "U+DD03", "U+DD04",
            "U+DD05", "U+DD06", "U+DD07", "U+DD08", "U+DD09", "U+DD0A",
            "U+DD0B", "U+DD0C", "U+DD0D", "U+DD0E", "U+DD0F", "U+DD10",
            "U+DD11", "U+DD12", "U+DD13", "U+DD14", "U+DD15", "U+DD16",
            "U+DD17", "U+DD18", "U+DD19", "U+DD1A", "U+DD1B", "U+DD1C",
            "U+DD1D", "U+DD1E", "U+DD1F", "U+DD20", "U+DD21", "U+DD22",
            "U+DD23", "U+DD24", "U+DD25", "U+DD26", "U+DD27", "U+DD28",
            "U+DD29", "U+DD2A", "U+DD2B", "U+DD2C", "U+DD2D", "U+DD2E",
            "U+DD2F", "U+DD30", "U+DD31", "U+DD32", "U+DD33", "U+DD34",
            "U+DD35", "U+DD36", "U+DD37", "U+DD38", "U+DD39", "U+DD3A",
            "U+DD3B", "U+DD3C", "U+DD3D", "U+DD3E", "U+DD3F", "U+DD40",
            "U+DD41", "U+DD42", "U+DD43", "U+DD44", "U+DD45", "U+DD46",
            "U+DD47", "U+DD48", "U+DD49", "U+DD4A", "U+DD4B", "U+DD4C",
            "U+DD4D", "U+DD4E", "U+DD4F", "U+DD50", "U+DD51", "U+DD52",
            "U+DD53", "U+DD54", "U+DD55", "U+DD56", "U+DD57", "U+DD58",
            "U+DD59", "U+DD5A", "U+DD5B", "U+DD5C", "U+DD5D", "U+DD5E",
            "U+DD5F", "U+DD60", "U+DD61", "U+DD62", "U+DD63", "U+DD64",
            "U+DD65", "U+DD66", "U+DD67", "U+DD68", "U+DD69", "U+DD6A",
            "U+DD6B", "U+DD6C", "U+DD6D", "U+DD6E", "U+DD6F", "U+DD70",
            "U+DD71", "U+DD72", "U+DD73", "U+DD74", "U+DD75", "U+DD76",
            "U+DD77", "U+DD78", "U+DD79", "U+DD7A", "U+DD7B", "U+DD7C",
            "U+DD7D", "U+DD7E", "U+DD7F", "U+DD80", "U+DD81", "U+DD82",
            "U+DD83", "U+DD84", "U+DD85", "U+DD86", "U+DD87", "U+DD88",
            "U+DD89", "U+DD8A", "U+DD8B", "U+DD8C", "U+DD8D", "U+DD8E",
            "U+DD8F", "U+DD90", "U+DD91", "U+DD92", "U+DD93", "U+DD94",
            "U+DD95", "U+DD96", "U+DD97", "U+DD98", "U+DD99", "U+DD9A",
            "U+DD9B", "U+DD9C", "U+DD9D", "U+DD9E", "U+DD9F", "U+DDA0",
            "U+DDA1", "U+DDA2", "U+DDA3", "U+DDA4", "U+DDA5", "U+DDA6",
            "U+DDA7", "U+DDA8", "U+DDA9", "U+DDAA", "U+DDAB", "U+DDAC",
            "U+DDAD", "U+DDAE", "U+DDAF", "U+DDB0", "U+DDB1", "U+DDB2",
            "U+DDB3", "U+DDB4", "U+DDB5", "U+DDB6", "U+DDB7", "U+DDB8",
            "U+DDB9", "U+DDBA", "U+DDBB", "U+DDBC", "U+DDBD", "U+DDBE",
            "U+DDBF", "U+DDC0", "U+DDC1", "U+DDC2", "U+DDC3", "U+DDC4",
            "U+DDC5", "U+DDC6", "U+DDC7", "U+DDC8", "U+DDC9", "U+DDCA",
            "U+DDCB", "U+DDCC", "U+DDCD", "U+DDCE", "U+DDCF", "U+DDD0",
            "U+DDD1", "U+DDD2", "U+DDD3", "U+DDD4", "U+DDD5", "U+DDD6",
            "U+DDD7", "U+DDD8", "U+DDD9", "U+DDDA", "U+DDDB", "U+DDDC",
            "U+DDDD", "U+DDDE", "U+DDDF", "U+DDE0", "U+DDE1", "U+DDE2",
            "U+DDE3", "U+DDE4", "U+DDE5", "U+DDE6", "U+DDE7", "U+DDE8",
            "U+DDE9", "U+DDEA", "U+DDEB", "U+DDEC", "U+DDED", "U+DDEE",
            "U+DDEF" }) }

LowerOf ==
    LET upper == UpperCase \o UnicodeUpper
        lower == LowerCase \o UnicodeLower
    IN  [c \in Range(upper) |->
            lower[CHOOSE i \in 1..Len(upper) : upper[i] = c]]

\* the lowercase of a code unit that is replaced by one code unit
LowerChar(c) == IF c \in DOMAIN LowerOf THEN LowerOf[c] ELSE c

LowerPairOf ==
    [p \in Range(UpperPairs) |->
        LowerPairs[CHOOSE i \in 1..Len(UpperPairs) : UpperPairs[i] = p]]

\* the code point that ends, and the one that starts, at position j of s:
\* a surrogate pair with a case property, or one code unit
CodePointBefore(s, j) ==
    IF /\ j > 1
       /\ \/ <<s[j - 1], s[j]>> \in CasedPairs
          \/ <<s[j - 1], s[j]>> \in CaseIgnorablePairs
    THEN <<s[j - 1], s[j]>> ELSE <<s[j]>>
CodePointAt(s, j) ==
    IF /\ j < Len(s)
       /\ \/ <<s[j], s[j + 1]>> \in CasedPairs
          \/ <<s[j], s[j + 1]>> \in CaseIgnorablePairs
    THEN <<s[j], s[j + 1]>> ELSE <<s[j]>>
Cased(cp) ==
    IF Len(cp) = 2 THEN cp \in CasedPairs ELSE cp[1] \in CasedUnits
CaseIgnorable(cp) ==
    IF Len(cp) = 2 THEN cp \in CaseIgnorablePairs
    ELSE cp[1] \in CaseIgnorableUnits

\* s[1..j] ends with a cased letter and then case-ignorable code points
RECURSIVE afterCased(_, _)
afterCased(s, j) ==
    IF j < 1 THEN FALSE
    ELSE LET cp == CodePointBefore(s, j)
         IN  IF CaseIgnorable(cp) THEN afterCased(s, j - Len(cp))
             ELSE Cased(cp)

\* s[j..] starts with case-ignorable code points and then a cased letter
RECURSIVE beforeCased(_, _)
beforeCased(s, j) ==
    IF j > Len(s) THEN FALSE
    ELSE LET cp == CodePointAt(s, j)
         IN  IF CaseIgnorable(cp) THEN beforeCased(s, j + Len(cp))
             ELSE Cased(cp)

\* the condition Final_Sigma of the Unicode case conversion for the capital
\* sigma at position i
FinalSigma(s, i) == afterCased(s, i - 1) /\ ~beforeCased(s, i + 1)

\* the code units whose lowercase depends on their neighbours or has two
\* code units: the capital I with dot above, the capital sigma and the high
\* surrogates of the pairs that have a lowercase
ContextUnits ==
    {"U+0130", "U+03A3"} \cup {UpperPairs[k][1] : k \in 1..Len(UpperPairs)}

\* the code units that toLowerCase puts for the code unit at position i
lowerAt(s, i) ==
    IF i < Len(s) /\ <<s[i], s[i + 1]>> \in DOMAIN LowerPairOf
    THEN <<LowerPairOf[<<s[i], s[i + 1]>>][1]>>
    ELSE IF i > 1 /\ <<s[i - 1], s[i]>> \in DOMAIN LowerPairOf
    THEN <<LowerPairOf[<<s[i - 1], s[i]>>][2]>>
    ELSE IF s[i] = "U+0130" THEN <<"i", "U+0307">>
    ELSE IF s[i] = "U+03A3"
    THEN <<(IF FinalSigma(s, i) THEN "U+03C2" ELSE "U+03C3")>>
    ELSE <<LowerChar(s[i])>>

\* the lowercase of the code units i..j of s
RECURSIVE lowerBetween(_, _, _)
lowerBetween(s, i, j) ==
    IF i > j THEN <<>>
    ELSE IF i = j THEN lowerAt(s, i)
    ELSE lowerBetween(s, i, (i + j) \div 2)
            \o lowerBetween(s, (i + j) \div 2 + 1, j)

\* String.prototype.toLowerCase; calling it on undefined raises a TypeError
toLowerCase(s) ==
    IF s = Undefined THEN TypeError
    ELSE IF \A i \in 1..Len(s) : s[i] \notin ContextUnits
    THEN [i \in 1..Len(s) |-> LowerChar(s[i])]
    ELSE lowerBetween(s, 1, Len(s))

\* String.prototype.trim
RECURSIVE trimStart(_)
trimStart(s) ==
    IF s # <<>> /\ Head(s) \in WhiteSpace THEN trimStart(Tail(s)) ELSE s

RECURSIVE trimEnd(_)
trimEnd(s) ==
    IF s # <<>> /\ s[Len(s)] \in WhiteSpace
    THEN trimEnd(SubSeq(s, 1, Len(s) - 1)) ELSE s

trim(s) == trimEnd(trimStart(s))

\* String.prototype.includes
includes(s, sub) ==
    \E i \in 0..(Len(s) - Len(sub)) : SubSeq(s, i + 1, i + Len(sub)) = sub

\* String.prototype.split with a one-character separator
RECURSIVE splitAt(_, _, _, _)
splitAt(s, sep, i, cur) ==
    IF i > Len(s) THEN <<cur>>
    ELSE IF s[i] = sep THEN <<cur>> \o splitAt(s, sep, i + 1, <<>>)
    ELSE splitAt(s, sep, i + 1, Append(cur, s[i]))

split(s, sep) == splitAt(s, sep, 1, <<>>)

\* s.split(/\W+/).filter(Boolean): the maximal runs of word characters, in
\* the order of their first characters
splitWords(s) ==
    LET isWord(i) == i >= 1 /\ i <= Len(s) /\ s[i] \in WordChars
        starts == {i \in 1..Len(s) : isWord(i) /\ ~isWord(i - 1)}
        ends == {i \in 1..Len(s) : isWord(i) /\ ~isWord(i + 1)}
        nth(S, k) == CHOOSE i \in S : Cardinality({j \in S : j < i}) = k - 1
    IN  [k \in 1..Cardinality(starts) |-> SubSeq(s, nth(starts, k), nth(ends, k))]

\* Array.prototype.join
RECURSIVE join(_, _)
join(parts, sep) ==
    IF parts = <<>> THEN <<>>
    ELSE IF Len(parts) = 1 THEN parts[1]
    ELSE parts[1] \o sep \o join(Tail(parts), sep)

\* variant: the property is used as it is, without the || '' default
OrEmptyDropped(x) == x

\* x || '' for a string-or-undefined x
OrEmpty(x) == IF x = Undefined \/ x = <<>> THEN <<>> ELSE x

\* faq.name for an optional property
Field(faq, name) == IF name \in DOMAIN faq THEN faq[name] ELSE Undefined

(***************************************************************************)
(* emotionHelper: levenshtein, similarity, tokenOverlap, findFaq.          *)
(***************************************************************************)
\* variant: the inner loop does not look at the diagonal entry
levStepNoDiagonal(a, b, i, v0, v1) ==
    LET j == Len(v1)
    IN  Append(v1, Min2(v1[j] + 1, v0[j + 1] + 1))

\* one iteration of the inner loop over j: v1 holds v1[0..j], as a sequence,
\* and the iteration appends v1[j + 1]
levStep(a, b, i, v0, v1) ==
    LET j == Len(v1)
        cost == IF a[i] = b[j] THEN 0 ELSE 1
    IN  Append(v1, Min2(Min2(v1[j] + 1, v0[j + 1] + 1), v0[j] + cost))

\* the next n iterations of the inner loop, in order: the first half of them
\* has filled its entries before the second half starts
RECURSIVE levSteps(_, _, _, _, _, _)
levSteps(a, b, i, v0, v1, n) ==
    IF n = 0 THEN v1
    ELSE IF n = 1 THEN levStep(a, b, i, v0, v1)
    ELSE LET filled == levSteps(a, b, i, v0, v1, n \div 2)
         IN  IF Len(filled) = Len(v1) + n \div 2
             THEN levSteps(a, b, i, v0, filled, n - n \div 2)
             ELSE filled

\* one pass of the inner loop over j, from v1 = <<v1[0]>>
levRow(a, b, i, v0, v1) == levSteps(a, b, i, v0, v1, Len(b) + 1 - Len(v1))

\* the outer loop over i; v0 is the previous row, and the row v1 is complete
\* when it is copied to v0 for the next pass
RECURSIVE levRows(_, _, _, _)
levRows(a, b, i, v0) ==
    LET v1 == levRow(a, b, i, v0, <<i>>)
    IN  IF Len(v1) = Len(b) + 1 /\ i < Len(a)
        THEN levRows(a, b, i + 1, v1)
        ELSE v1[Len(b) + 1]

levenshtein(a, b) ==
    IF a = b THEN 0
    ELSE IF Len(a) = 0 THEN Len(b)
    ELSE IF Len(b) = 0 THEN Len(a)
    ELSE levRows(a, b, 1, [k \in 1..(Len(b) + 1) |-> k - 1])

\* variant: the distance is divided by the length of the first string
similarityByFirst(a, b) ==
    IF Len(a) = 0 \/ Len(b) = 0 THEN Zero
    ELSE DoubleSub(One, Double(levenshtein(a, b), Len(a)))

similarity(a, b) ==
    IF Len(a) = 0 \/ Len(b) = 0 THEN Zero
    ELSE DoubleSub(One, Double(levenshtein(a, b), Max2(Len(a), Len(b))))

\* variant: the count is divided by the smaller number of tokens
tokenOverlapByMin(a, b) ==
    LET aTokens == splitWords(a)
        bTokens == splitWords(b)
        setB == Range(bTokens)
        common == Cardinality({k \in 1..Len(aTokens) : aTokens[k] \in setB})
    IN  IF Len(aTokens) = 0 \/ Len(bTokens) = 0 THEN Zero
        ELSE Double(common, Min2(Len(aTokens), Len(bTokens)))

tokenOverlap(a, b) ==
    LET aTokens == splitWords(a)
        bTokens == splitWords(b)
        setB == Range(bTokens)
        common == Cardinality({k \in 1..Len(aTokens) : aTokens[k] \in setB})
    IN  IF Len(aTokens) = 0 \/ Len(bTokens) = 0 THEN Zero
        ELSE Double(common, Max2(Len(aTokens), Len(bTokens)))

\* variant: the tokens are not trimmed
keywordsOfUntrimmed(faq) ==
    split(toLowerCase(OrEmpty(Field(faq, "keywords"))), ",")

\* each of the parts trimmed
trimmedParts(parts) == [k \in 1..Len(parts) |-> trim(OrEmpty(parts[k]))]

\* the keywords array of one FAQ: lowercased, split on commas, each trimmed
keywordsOf(faq) ==
    trimmedParts(split(toLowerCase(OrEmpty(Field(faq, "keywords"))), ","))

\* variant: an empty keyword counts as well
directHitIn(lowercaseQuestion, keywords, questionWords) ==
    \/ \E k \in 1..Len(keywords) : includes(lowercaseQuestion, keywords[k])
    \/ questionWords # <<>> /\ includes(lowercaseQuestion, questionWords)

directHitUnguarded(lowercaseQuestion, faq) ==
    directHitIn(lowercaseQuestion, keywordsOf(faq),
                toLowerCase(OrEmpty(Field(faq, "question"))))

\* the condition of the direct-match if statement, for the keywords array
\* and the lowercased question of the FAQ
directHitOn(lowercaseQuestion, keywords, questionWords) ==
    \/ \E k \in 1..Len(keywords) :
          keywords[k] # <<>> /\ includes(lowercaseQuestion, keywords[k])
    \/ questionWords # <<>> /\ includes(lowercaseQuestion, questionWords)

\* the condition of the direct-match if statement
directHit(lowercaseQuestion, faq) ==
    directHitOn(lowercaseQuestion, keywordsOf(faq),
                toLowerCase(OrEmpty(Field(faq, "question"))))

\* a property read that is lowercased without a usable default raises
raises(faq, name) == toLowerCase(OrEmpty(Field(faq, name))) = TypeError

\* variant: the 0.6 and 0.4 weights of the question side are exchanged
weightedSwapped(simQ, overlapQ, simA, overlapA) ==
    DoubleMax(DoubleAdd(DoubleMul(simQ, Double(2, 5)),
                        DoubleMul(overlapQ, Double(3, 5))),
              DoubleAdd(DoubleMul(simA, Double(1, 2)),
                        DoubleMul(overlapA, Double(1, 2))))

scoreAgainstSwapped(lowercaseQuestion, q, a) ==
    weightedSwapped(similarity(lowercaseQuestion, q),
                    tokenOverlap(lowercaseQuestion, q),
                    similarity(lowercaseQuestion, a),
                    tokenOverlap(lowercaseQuestion, a))

fuzzyScoreSwapped(lowercaseQuestion, faq) ==
    scoreAgainstSwapped(lowercaseQuestion,
                        toLowerCase(OrEmpty(Field(faq, "question"))),
                        toLowerCase(OrEmpty(Field(faq, "answer"))))

\* the score of the lowercased question q and answer a of one FAQ:
\* Math.max(simQ * 0.6 + overlapQ * 0.4, simA * 0.5 + overlapA * 0.5)
scoreAgainst(lowercaseQuestion, q, a) ==
    DoubleMax(
        DoubleAdd(DoubleMul(similarity(lowercaseQuestion, q), Double(3, 5)),
                  DoubleMul(tokenOverlap(lowercaseQuestion, q), Double(2, 5))),
        DoubleAdd(DoubleMul(similarity(lowercaseQuestion, a), Double(1, 2)),
                  DoubleMul(tokenOverlap(lowercaseQuestion, a), Double(1, 2))))

fuzzyScore(lowercaseQuestion, faq) ==
    scoreAgainst(lowercaseQuestion,
                 toLowerCase(OrEmpty(Field(faq, "question"))),
                 toLowerCase(OrEmpty(Field(faq, "answer"))))

\* if (score > best.score) best = { faq, score }
betterOf(best, faq, score) ==
    IF DoubleLess(best.score, score) THEN [faq |-> faq, score |-> score]
    ELSE best

\* the fuzzy loop, from catalog position i with the best entry so far
RECURSIVE fuzzyLoop(_, _, _, _)
fuzzyLoop(lowercaseQuestion, catalog, i, best) ==
    IF i > Len(catalog) THEN best
    ELSE IF raises(catalog[i], "question") \/ raises(catalog[i], "answer")
    THEN Raised
    ELSE fuzzyLoop(lowercaseQuestion, catalog, i + 1,
                   betterOf(best, catalog[i],
                            fuzzyScore(lowercaseQuestion, catalog[i])))

\* the direct-match loop, from catalog position i
RECURSIVE directLoop(_, _, _)
directLoop(lowercaseQuestion, catalog, i) ==
    IF i > Len(catalog)
    THEN fuzzyLoop(lowercaseQuestion, catalog, 1, [score |-> Zero])
    ELSE IF raises(catalog[i], "keywords") \/ raises(catalog[i], "question")
    THEN Raised
    ELSE IF directHit(lowercaseQuestion, catalog[i])
    THEN [faq |-> catalog[i], score |-> One]
    ELSE directLoop(lowercaseQuestion, catalog, i + 1)

findFaq(question, catalog) == directLoop(toLowerCase(question), catalog, 1)

(***************************************************************************)
(* emotionDetection: the lexicon and detectEmotion.                        *)
(***************************************************************************)
emotionPatterns ==
    [ happy |->
        [ keywords |->
            << <<"h","a","p","p","y">>,
               <<"g","r","e","a","t">>,
               <<"a","w","e","s","o","m","e">>,
               <<"e","x","c","e","l","l","e","n","t">>,
               <<"w","o","n","d","e","r","f","u","l">>,
               <<"f","a","n","t","a","s","t","i","c">>,
               <<"l","o","v","e">>,
               <<"p","e","r","f","e","c","t">>,
               <<"a","m","a","z","i","n","g">>,
               <<"t","h","a","n","k">>,
               <<"t","h","a","n","k","s">>,
               <<"g","o","o","d">>,
               <<"n","i","c","e">>,
               <<"U+D83D","U+DE0A">>,
               <<"U+D83D","U+DE03">>,
               <<"U+D83D","U+DE04">>,
               <<"U+D83C","U+DF89">>,
               <<"U+D83D","U+DC4D">>,
               <<"U+2764","U+FE0F">> >>,
          phrases |->
            << <<"t","h","a","n","k"," ","y","o","u">>,
               <<"t","h","a","n","k","s"," ","s","o"," ","m","u","c","h">>,
               <<"a","p","p","r","e","c","i","a","t","e"," ","i","t">>,
               <<"l","o","v","e"," ","i","t">> >> ],
      sad |->
        [ keywords |->
            << <<"s","a","d">>,
               <<"u","n","h","a","p","p","y">>,
               <<"d","i","s","a","p","p","o","i","n","t","e","d">>,
               <<"s","o","r","r","y">>,
               <<"u","p","s","e","t">>,
               <<"d","o","w","n">>,
               <<"d","e","p","r","e","s","s","e","d">>,
               <<"m","i","s","e","r","a","b","l","e">>,
               <<"t","e","r","r","i","b","l","e">>,
               <<"a","w","f","u","l">>,
               <<"h","o","r","r","i","b","l","e">>,
               <<"b","a","d">>,
               <<"U+D83D","U+DE22">>,
               <<"U+D83D","U+DE1E">>,
               <<"U+D83D","U+DE14">>,
               <<"U+2639","U+FE0F">> >>,
          phrases |->
            << <<"f","e","e","l"," ","b","a","d">>,
               <<"n","o","t"," ","g","o","o","d">>,
               <<"v","e","r","y"," ","d","i","s","a","p","p","o","i","n","t",
                 "e","d">>,
               <<"l","e","t"," ","d","o","w","n">> >> ],
      angry |->
        [ keywords |->
            << <<"a","n","g","r","y">>,
               <<"m","a","d">>,
               <<"f","u","r","i","o","u","s">>,
               <<"o","u","t","r","a","g","e","d">>,
               <<"l","i","v","i","d">>,
               <<"h","a","t","e">>,
               <<"d","i","s","g","u","s","t","i","n","g">>,
               <<"r","i","d","i","c","u","l","o","u","s">>,
               <<"u","n","a","c","c","e","p","t","a","b","l","e">>,
               <<"p","a","t","h","e","t","i","c">>,
               <<"s","t","u","p","i","d">>,
               <<"w","o","r","s","t">>,
               <<"U+D83D","U+DE20">>,
               <<"U+D83D","U+DE21">>,
               <<"U+D83E","U+DD2C">> >>,
          phrases |->
            << <<"f","e","d"," ","u","p">>,
               <<"s","i","c","k"," ","o","f">>,
               <<"h","a","d"," ","e","n","o","u","g","h">>,
               <<"t","h","i","s"," ","i","s"," ","r","i","d","i","c","u","l",
                 "o","u","s">> >> ],
      frustrated |->
        [ keywords |->
            << <<"f","r","u","s","t","r","a","t","e","d">>,
               <<"a","n","n","o","y","i","n","g">>,
               <<"i","r","r","i","t","a","t","i","n","g">>,
               <<"a","g","g","r","a","v","a","t","i","n","g">>,
               <<"t","r","o","u","b","l","e","s","o","m","e">>,
               <<"d","i","f","f","i","c","u","l","t">>,
               <<"s","t","r","u","g","g","l","i","n","g">>,
               <<"s","t","u","c","k">>,
               <<"p","r","o","b","l","e","m">>,
               <<"i","s","s","u","e">>,
               <<"u","g","h">>,
               <<"a","r","g","h">>,
               <<"U+D83D","U+DE24">>,
               <<"U+D83D","U+DE2B">> >>,
          phrases |->
            << <<"n","o","t"," ","w","o","r","k","i","n","g">>,
               <<"d","o","e","s","n","t"," ","w","o","r","k">>,
               <<"d","o","e","s","n","'","t"," ","w","o","r","k">>,
               <<"c","a","n","t"," ","s","e","e","m">>,
               <<"k","e","e","p"," ","t","r","y","i","n","g">> >> ],
      confused |->
        [ keywords |->
            << <<"c","o","n","f","u","s","e","d">>,
               <<"c","o","n","f","u","s","i","n","g">>,
               <<"u","n","c","l","e","a","r">>,
               <<"u","n","d","e","r","s","t","a","n","d">>,
               <<"w","h","a","t">>,
               <<"h","o","w">>,
               <<"w","h","y">>,
               <<"h","e","l","p">>,
               <<"l","o","s","t">>,
               <<"u","n","s","u","r","e">>,
               <<"u","n","c","e","r","t","a","i","n">>,
               <<"d","o","n","t"," ","k","n","o","w">>,
               <<"U+D83D","U+DE15">>,
               <<"U+D83E","U+DD14">>,
               <<"U+D83D","U+DE35">> >>,
          phrases |->
            << <<"d","o","n","t"," ","u","n","d","e","r","s","t","a","n","d">>,
               <<"d","o","n","'","t"," ","u","n","d","e","r","s","t","a","n",
                 "d">>,
               <<"n","o","t"," ","s","u","r","e">>,
               <<"h","o","w"," ","d","o">>,
               <<"w","h","a","t"," ","i","s">>,
               <<"e","x","p","l","a","i","n">> >> ],
      anxious |->
        [ keywords |->
            << <<"w","o","r","r","i","e","d">>,
               <<"c","o","n","c","e","r","n">>,
               <<"n","e","r","v","o","u","s">>,
               <<"a","n","x","i","o","u","s">>,
               <<"s","c","a","r","e","d">>,
               <<"a","f","r","a","i","d">>,
               <<"u","n","c","e","r","t","a","i","n">>,
               <<"u","n","s","u","r","e">>,
               <<"h","e","s","i","t","a","n","t">>,
               <<"d","o","u","b","t">>,
               <<"f","e","a","r">>,
               <<"U+D83D","U+DE30">>,
               <<"U+D83D","U+DE28">>,
               <<"U+D83D","U+DE1F">> >>,
          phrases |->
            << <<"w","o","r","r","i","e","d"," ","a","b","o","u","t">>,
               <<"c","o","n","c","e","r","n","e","d"," ","a","b","o","u","t">>,
               <<"w","h","a","t"," ","i","f">>,
               <<"w","i","l","l"," ","i","t">> >> ],
      excited |->
        [ keywords |->
            << <<"e","x","c","i","t","e","d">>,
               <<"c","a","n","t"," ","w","a","i","t">>,
               <<"c","a","n","'","t"," ","w","a","i","t">>,
               <<"l","o","o","k","i","n","g"," ","f","o","r","w","a","r","d">>,
               <<"e","a","g","e","r">>,
               <<"p","u","m","p","e","d">>,
               <<"t","h","r","i","l","l","e","d">>,
               <<"s","t","o","k","e","d">>,
               <<"y","a","y">>,
               <<"w","o","o","h","o","o">>,
               <<"w","o","w">>,
               <<"U+D83C","U+DF89">>,
               <<"U+D83E","U+DD29">>,
               <<"U+D83D","U+DE0D">>,
               <<"U+D83E","U+DD73">> >>,
          phrases |->
            << <<"c","a","n","t"," ","w","a","i","t">>,
               <<"c","a","n","'","t"," ","w","a","i","t">>,
               <<"s","o"," ","e","x","c","i","t","e","d">>,
               <<"l","o","o","k","i","n","g"," ","f","o","r","w","a","r","d">> >> ] ]

\* the key order of emotionPatterns and of the scores record
PatternOrder ==
    <<"happy", "sad", "angry", "frustrated", "confused", "anxious", "excited">>
ScoreOrder == PatternOrder \o <<"neutral">>

\* the entries of list, in order, that occur in the normalized text
matchedIn(normalized, list) ==
    SelectSeq(list, LAMBDA k : includes(normalized, toLowerCase(k)))

\* the score of one emotion after the loop over its keywords kw and its
\* phrases ph that matched
lexiconScore(kw, ph) ==
    [score |-> FromInt(2 * Len(kw) + 3 * Len(ph)), matches |-> kw \o ph]

\* scores after the loop over emotionPatterns
lexiconScores(normalized) ==
    [e \in Range(ScoreOrder) |->
        IF e = "neutral" THEN [score |-> Zero, matches |-> <<>>]
        ELSE lexiconScore(matchedIn(normalized, emotionPatterns[e].keywords),
                          matchedIn(normalized, emotionPatterns[e].phrases))]

\* variant: '!' adds to excited only
punctuationScoresExcitedOnly(normalized, scores) ==
    LET q == IF includes(normalized, <<"?">>) THEN One ELSE Zero
        x == IF includes(normalized, <<"!">>) THEN Double(1, 2) ELSE Zero
    IN  [e \in DOMAIN scores |->
            [scores[e] EXCEPT !.score =
                IF e = "confused" THEN DoubleAdd(@, q)
                ELSE IF e = "excited" THEN DoubleAdd(@, x)
                ELSE @]]

\* scores after the two punctuation rules
punctuationScores(normalized, scores) ==
    LET q == IF includes(normalized, <<"?">>) THEN One ELSE Zero
        x == IF includes(normalized, <<"!">>) THEN Double(1, 2) ELSE Zero
    IN  [e \in DOMAIN scores |->
            [scores[e] EXCEPT !.score =
                IF e = "confused" THEN DoubleAdd(@, q)
                ELSE IF e \in {"excited", "angry"} THEN DoubleAdd(@, x)
                ELSE @]]

\* Array.prototype.sort with (a, b) => b[1].score - a[1].score: a stable
\* sort by descending score
RECURSIVE insertByScore(_, _)
insertByScore(sorted, entry) ==
    IF sorted = <<>> THEN <<entry>>
    ELSE IF DoubleLess(Head(sorted)[2].score, entry[2].score)
    THEN <<entry>> \o sorted
    ELSE <<Head(sorted)>> \o insertByScore(Tail(sorted), entry)

RECURSIVE sortByScore(_, _)
sortByScore(entries, sorted) ==
    IF entries = <<>> THEN sorted
    ELSE sortByScore(Tail(entries), insertByScore(sorted, Head(entries)))

\* the scores of the normalized text
scoresOf(normalized) ==
    punctuationScores(normalized, lexiconScores(normalized))

\* Object.entries(scores).sort(...)[0]
topEmotionOf(scores) ==
    sortByScore([k \in 1..Len(ScoreOrder) |->
                    <<ScoreOrder[k], scores[ScoreOrder[k]]>>], <<>>)[1]

\* variant: a top score below 1 counts as no emotion
analysisOfTopBelowOne(topEmotion) ==
    IF DoubleLess(topEmotion[2].score, One)
    THEN [emotion |-> "neutral", confidence |-> One, keywords |-> <<>>]
    ELSE [emotion |-> topEmotion[1],
          confidence |-> DoubleMin(DoubleDivInt(topEmotion[2].score, 10), One),
          keywords |-> topEmotion[2].matches]

detectEmotionBelowOne(t) ==
    analysisOfTopBelowOne(topEmotionOf(scoresOf(trim(toLowerCase(t)))))

\* the EmotionAnalysis that is returned for the top entry
analysisOfTop(topEmotion) ==
    IF topEmotion[2].score = Zero
    THEN [emotion |-> "neutral", confidence |-> One, keywords |-> <<>>]
    ELSE [emotion |-> topEmotion[1],
          confidence |-> DoubleMin(DoubleDivInt(topEmotion[2].score, 10), One),
          keywords |-> topEmotion[2].matches]

detectEmotion(t) ==
    analysisOfTop(topEmotionOf(scoresOf(trim(toLowerCase(t)))))

(***************************************************************************)
(* empatheticResponses: the template pools and the two generators.         *)
(***************************************************************************)
empatheticPrefixes ==
    [ happy |->
        << [ acknowledgment |->
               <<"I","'","m"," ","g","l","a","d"," ","y","o","u","'","r","e",
                 " ","f","e","e","l","i","n","g"," ","p","o","s","i","t","i",
                 "v","e","!">>,
             transition |->
               <<"L","e","t"," ","m","e"," ","h","e","l","p"," ","y","o","u",
                 " ","w","i","t","h"," ","t","h","a","t",".">> ],
           [ acknowledgment |->
               <<"T","h","a","t","'","s"," ","w","o","n","d","e","r","f","u",
                 "l"," ","t","o"," ","h","e","a","r","!">>,
             transition |->
               <<"H","e","r","e","'","s"," ","w","h","a","t"," ","I"," ","c",
                 "a","n"," ","t","e","l","l"," ","y","o","u",":">> ],
           [ acknowledgment |->
               <<"G","r","e","a","t"," ","e","n","e","r","g","y","!">>,
             transition |->
               <<"I","'","d"," ","b","e"," ","h","a","p","p","y"," ","t","o",
                 " ","a","s","s","i","s","t",".">> ] >>,
      sad |->
        << [ acknowledgment |->
               <<"I"," ","u","n","d","e","r","s","t","a","n","d"," ","t","h",
                 "i","s"," ","m","i","g","h","t"," ","b","e"," ","d","i","s",
                 "a","p","p","o","i","n","t","i","n","g",".">>,
             transition |->
               <<"L","e","t"," ","m","e"," ","s","e","e"," ","h","o","w"," ",
                 "I"," ","c","a","n"," ","h","e","l","p"," ","m","a","k","e",
                 " ","t","h","i","s"," ","b","e","t","t","e","r",".">> ],
           [ acknowledgment |->
               <<"I","'","m"," ","s","o","r","r","y"," ","t","o"," ","h","e",
                 "a","r"," ","y","o","u","'","r","e"," ","n","o","t"," ","f",
                 "e","e","l","i","n","g"," ","g","r","e","a","t"," ","a","b",
                 "o","u","t"," ","t","h","i","s",".">>,
             transition |->
               <<"H","e","r","e","'","s"," ","w","h","a","t"," ","I"," ","c",
                 "a","n"," ","d","o"," ","t","o"," ","a","s","s","i","s","t",
                 ":">> ],
           [ acknowledgment |->
               <<"I"," ","c","a","n"," ","s","e","n","s","e"," ","s","o","m",
                 "e"," ","d","i","s","a","p","p","o","i","n","t","m","e","n",
                 "t",".">>,
             transition |->
               <<"L","e","t"," ","m","e"," ","p","r","o","v","i","d","e"," ",
                 "y","o","u"," ","w","i","t","h"," ","h","e","l","p","f","u",
                 "l"," ","i","n","f","o","r","m","a","t","i","o","n",".">> ] >>,
      angry |->
        << [ acknowledgment |->
               <<"I"," ","u","n","d","e","r","s","t","a","n","d"," ","y","o",
                 "u","r"," ","f","r","u","s","t","r","a","t","i","o","n",",",
                 " ","a","n","d"," ","I","'","m"," ","h","e","r","e"," ","t",
                 "o"," ","h","e","l","p",".">>,
             transition |->
               <<"L","e","t"," ","m","e"," ","p","r","o","v","i","d","e"," ",
                 "y","o","u"," ","w","i","t","h"," ","t","h","e"," ","i","n",
                 "f","o","r","m","a","t","i","o","n"," ","y","o","u"," ","n",
                 "e","e","d",":">> ],
           [ acknowledgment |->
               <<"I"," ","h","e","a","r"," ","y","o","u",","," ","a","n","d",
                 " ","I"," ","w","a","n","t"," ","t","o"," ","m","a","k","e",
                 " ","t","h","i","s"," ","r","i","g","h","t",".">>,
             transition |->
               <<"H","e","r","e","'","s"," ","w","h","a","t"," ","y","o","u",
                 " ","n","e","e","d"," ","t","o"," ","k","n","o","w",":">> ],
           [ acknowledgment |->
               <<"I"," ","c","a","n"," ","s","e","e"," ","t","h","i","s"," ",
                 "i","s"," ","f","r","u","s","t","r","a","t","i","n","g"," ",
                 "f","o","r"," ","y","o","u",".">>,
             transition |->
               <<"L","e","t"," ","m","e"," ","h","e","l","p"," ","c","l","a",
                 "r","i","f","y"," ","t","h","i","n","g","s",":">> ] >>,
      frustrated |->
        << [ acknowledgment |->
               <<"I"," ","c","a","n"," ","s","e","e"," ","y","o","u","'","r",
                 "e"," ","h","a","v","i","n","g"," ","s","o","m","e"," ","d",
                 "i","f","f","i","c","u","l","t","y"," ","w","i","t","h"," ",
                 "t","h","i","s",".">>,
             transition |->
               <<"L","e","t"," ","m","e"," ","b","r","e","a","k"," ","t","h",
                 "i","s"," ","d","o","w","n"," ","f","o","r"," ","y","o","u",
                 ":">> ],
           [ acknowledgment |->
               <<"I"," ","u","n","d","e","r","s","t","a","n","d"," ","t","h",
                 "i","s"," ","c","a","n"," ","b","e"," ","c","o","n","f","u",
                 "s","i","n","g",".">>,
             transition |->
               <<"H","e","r","e","'","s"," ","a"," ","c","l","e","a","r","e",
                 "r"," ","e","x","p","l","a","n","a","t","i","o","n",":">> ],
           [ acknowledgment |->
               <<"I","'","m"," ","h","e","r","e"," ","t","o"," ","h","e","l",
                 "p"," ","m","a","k","e"," ","t","h","i","s"," ","e","a","s",
                 "i","e","r"," ","f","o","r"," ","y","o","u",".">>,
             transition |->
               <<"L","e","t"," ","m","e"," ","e","x","p","l","a","i","n",":">> ] >>,
      confused |->
        << [ acknowledgment |->
               <<"T","h","a","t","'","s"," ","a"," ","g","r","e","a","t"," ",
                 "q","u","e","s","t","i","o","n","!"," ","L","e","t"," ","m",
                 "e"," ","c","l","a","r","i","f","y",".">>,
             transition |->
               <<"H","e","r","e","'","s"," ","a"," ","s","i","m","p","l","e",
                 " ","e","x","p","l","a","n","a","t","i","o","n",":">> ],
           [ acknowledgment |->
               <<"I"," ","c","a","n"," ","h","e","l","p"," ","c","l","e","a",
                 "r"," ","t","h","a","t"," ","u","p"," ","f","o","r"," ","y",
                 "o","u",".">>,
             transition |->
               <<"H","e","r","e","'","s"," ","w","h","a","t"," ","y","o","u",
                 " ","n","e","e","d"," ","t","o"," ","k","n","o","w",":">> ],
           [ acknowledgment |->
               <<"N","o"," ","w","o","r","r","i","e","s",","," ","I","'","m",
                 " ","h","e","r","e"," ","t","o"," ","e","x","p","l","a","i",
                 "n","!">>,
             transition |->
               <<"L","e","t"," ","m","e"," ","w","a","l","k"," ","y","o","u",
                 " ","t","h","r","o","u","g","h"," ","t","h","i","s",":">> ] >>,
      anxious |->
        << [ acknowledgment |->
               <<"I"," ","u","n","d","e","r","s","t","a","n","d"," ","y","o",
                 "u","r"," ","c","o","n","c","e","r","n","."," ","L","e","t",
                 " ","m","e"," ","h","e","l","p"," ","p","u","t"," ","y","o",
                 "u","r"," ","m","i","n","d"," ","a","t"," ","e","a","s","e",
                 ".">>,
             transition |->
               <<"H","e","r","e","'","s"," ","w","h","a","t"," ","y","o","u",
                 " ","s","h","o","u","l","d"," ","k","n","o","w",":">> ],
           [ acknowledgment |->
               <<"D","o","n","'","t"," ","w","o","r","r","y",","," ","I","'",
                 "m"," ","h","e","r","e"," ","t","o"," ","h","e","l","p"," ",
                 "y","o","u"," ","w","i","t","h"," ","t","h","i","s",".">>,
             transition |->
               <<"H","e","r","e","'","s"," ","t","h","e"," ","i","n","f","o",
                 "r","m","a","t","i","o","n"," ","y","o","u"," ","n","e","e",
                 "d",":">> ],
           [ acknowledgment |->
               <<"I"," ","c","a","n"," ","h","e","l","p"," ","a","d","d","r",
                 "e","s","s"," ","y","o","u","r"," ","c","o","n","c","e","r",
                 "n","s",".">>,
             transition |->
               <<"L","e","t"," ","m","e"," ","e","x","p","l","a","i","n",":">> ] >>,
      excited |->
        << [ acknowledgment |->
               <<"I"," ","l","o","v","e"," ","t","h","e"," ","e","n","t","h",
                 "u","s","i","a","s","m","!">>,
             transition |->
               <<"H","e","r","e","'","s"," ","w","h","a","t"," ","y","o","u",
                 " ","n","e","e","d"," ","t","o"," ","k","n","o","w",":">> ],
           [ acknowledgment |->
               <<"T","h","a","t","'","s"," ","e","x","c","i","t","i","n","g",
                 "!">>,
             transition |->
               <<"L","e","t"," ","m","e"," ","h","e","l","p"," ","y","o","u",
                 " ","w","i","t","h"," ","t","h","a","t",":">> ],
           [ acknowledgment |->
               <<"G","r","e","a","t"," ","t","o"," ","s","e","e"," ","y","o",
                 "u"," ","s","o"," ","i","n","t","e","r","e","s","t","e","d",
                 "!">>,
             transition |->
               <<"H","e","r","e","'","s"," ","t","h","e"," ","i","n","f","o",
                 "r","m","a","t","i","o","n",":">> ] >>,
      neutral |->
        << [ acknowledgment |->
               <<"T","h","a","n","k"," ","y","o","u"," ","f","o","r"," ","r",
                 "e","a","c","h","i","n","g"," ","o","u","t",".">>,
             transition |->
               <<"H","e","r","e","'","s"," ","w","h","a","t"," ","I"," ","c",
                 "a","n"," ","t","e","l","l"," ","y","o","u",":">> ],
           [ acknowledgment |->
               <<"I","'","m"," ","h","a","p","p","y"," ","t","o"," ","h","e",
                 "l","p",".">>,
             transition |->
               <<"H","e","r","e","'","s"," ","t","h","e"," ","i","n","f","o",
                 "r","m","a","t","i","o","n"," ","y","o","u"," ","n","e","e",
                 "d",":">> ],
           [ acknowledgment |->
               <<"L","e","t"," ","m","e"," ","a","s","s","i","s","t"," ","y",
                 "o","u"," ","w","i","t","h"," ","t","h","a","t",".">>,
             transition |->
               <<"H","e","r","e","'","s"," ","w","h","a","t"," ","y","o","u",
                 " ","s","h","o","u","l","d"," ","k","n","o","w",":">> ] >> ]

supportiveSuffixes ==
    [ happy |->
        << <<"F","e","e","l"," ","f","r","e","e"," ","t","o"," ","a","s","k",
             " ","i","f"," ","y","o","u"," ","n","e","e","d"," ","a","n","y",
             "t","h","i","n","g"," ","e","l","s","e","!">>,
           <<"I","s"," ","t","h","e","r","e"," ","a","n","y","t","h","i","n",
             "g"," ","e","l","s","e"," ","I"," ","c","a","n"," ","h","e","l",
             "p"," ","y","o","u"," ","w","i","t","h","?">>,
           <<"L","e","t"," ","m","e"," ","k","n","o","w"," ","i","f"," ","y",
             "o","u"," ","h","a","v","e"," ","a","n","y"," ","o","t","h","e",
             "r"," ","q","u","e","s","t","i","o","n","s","!">> >>,
      sad |->
        << <<"I"," ","h","o","p","e"," ","t","h","i","s"," ","h","e","l","p",
             "s"," ","i","m","p","r","o","v","e"," ","y","o","u","r"," ","e",
             "x","p","e","r","i","e","n","c","e","."," ","P","l","e","a","s",
             "e"," ","l","e","t"," ","m","e"," ","k","n","o","w"," ","i","f",
             " ","y","o","u"," ","n","e","e","d"," ","a","n","y","t","h","i",
             "n","g"," ","e","l","s","e",".">>,
           <<"I","f"," ","t","h","e","r","e","'","s"," ","a","n","y","t","h",
             "i","n","g"," ","m","o","r","e"," ","I"," ","c","a","n"," ","d",
             "o"," ","t","o"," ","h","e","l","p",","," ","p","l","e","a","s",
             "e"," ","d","o","n","'","t"," ","h","e","s","i","t","a","t","e",
             " ","t","o"," ","a","s","k",".">>,
           <<"I","'","m"," ","h","e","r","e"," ","i","f"," ","y","o","u"," ",
             "n","e","e","d"," ","a","n","y"," ","a","d","d","i","t","i","o",
             "n","a","l"," ","s","u","p","p","o","r","t"," ","o","r"," ","i",
             "n","f","o","r","m","a","t","i","o","n",".">> >>,
      angry |->
        << <<"I"," ","a","p","p","r","e","c","i","a","t","e"," ","y","o","u",
             "r"," ","p","a","t","i","e","n","c","e","."," ","I","s"," ","t",
             "h","e","r","e"," ","a","n","y","t","h","i","n","g"," ","e","l",
             "s","e"," ","I"," ","c","a","n"," ","h","e","l","p"," ","c","l",
             "a","r","i","f","y","?">>,
           <<"T","h","a","n","k"," ","y","o","u"," ","f","o","r"," ","g","i",
             "v","i","n","g"," ","m","e"," ","t","h","e"," ","o","p","p","o",
             "r","t","u","n","i","t","y"," ","t","o"," ","h","e","l","p",".",
             " ","L","e","t"," ","m","e"," ","k","n","o","w"," ","i","f"," ",
             "y","o","u"," ","n","e","e","d"," ","m","o","r","e"," ","i","n",
             "f","o","r","m","a","t","i","o","n",".">>,
           <<"I","'","m"," ","h","e","r","e"," ","t","o"," ","e","n","s","u",
             "r","e"," ","y","o","u"," ","h","a","v","e"," ","t","h","e"," ",
             "b","e","s","t"," ","e","x","p","e","r","i","e","n","c","e"," ",
             "p","o","s","s","i","b","l","e","."," ","F","e","e","l"," ","f",
             "r","e","e"," ","t","o"," ","a","s","k"," ","a","n","y","t","h",
             "i","n","g"," ","e","l","s","e",".">> >>,
      frustrated |->
        << <<"I"," ","h","o","p","e"," ","t","h","a","t"," ","m","a","k","e",
             "s"," ","t","h","i","n","g","s"," ","c","l","e","a","r","e","r",
             "."," ","D","o","n","'","t"," ","h","e","s","i","t","a","t","e",
             " ","t","o"," ","a","s","k"," ","i","f"," ","y","o","u"," ","n",
             "e","e","d"," ","m","o","r","e"," ","h","e","l","p","!">>,
           <<"F","e","e","l"," ","f","r","e","e"," ","t","o"," ","a","s","k",
             " ","f","o","l","l","o","w","-","u","p"," ","q","u","e","s","t",
             "i","o","n","s"," ","i","f"," ","a","n","y","t","h","i","n","g",
             " ","i","s"," ","s","t","i","l","l"," ","u","n","c","l","e","a",
             "r",".">>,
           <<"I","'","m"," ","h","e","r","e"," ","t","o"," ","h","e","l","p",
             " ","m","a","k","e"," ","t","h","i","s"," ","a","s"," ","s","m",
             "o","o","t","h"," ","a","s"," ","p","o","s","s","i","b","l","e",
             " ","f","o","r"," ","y","o","u",".">> >>,
      confused |->
        << <<"D","o","e","s"," ","t","h","a","t"," ","m","a","k","e"," ","s",
             "e","n","s","e","?"," ","F","e","e","l"," ","f","r","e","e"," ",
             "t","o"," ","a","s","k"," ","f","o","r"," ","m","o","r","e"," ",
             "c","l","a","r","i","f","i","c","a","t","i","o","n","!">>,
           <<"I","'","m"," ","h","a","p","p","y"," ","t","o"," ","e","x","p",
             "l","a","i","n"," ","f","u","r","t","h","e","r"," ","i","f"," ",
             "y","o","u"," ","n","e","e","d"," ","m","o","r","e"," ","d","e",
             "t","a","i","l","s",".">>,
           <<"L","e","t"," ","m","e"," ","k","n","o","w"," ","i","f"," ","y",
             "o","u","'","d"," ","l","i","k","e"," ","m","e"," ","t","o"," ",
             "b","r","e","a","k"," ","i","t"," ","d","o","w","n"," ","d","i",
             "f","f","e","r","e","n","t","l","y","!">> >>,
      anxious |->
        << <<"I"," ","h","o","p","e"," ","t","h","i","s"," ","h","e","l","p",
             "s"," ","e","a","s","e"," ","y","o","u","r"," ","c","o","n","c",
             "e","r","n","s","."," ","P","l","e","a","s","e"," ","r","e","a",
             "c","h"," ","o","u","t"," ","i","f"," ","y","o","u"," ","h","a",
             "v","e"," ","m","o","r","e"," ","q","u","e","s","t","i","o","n",
             "s",".">>,
           <<"F","e","e","l"," ","f","r","e","e"," ","t","o"," ","a","s","k",
             " ","a","n","y","t","h","i","n","g"," ","e","l","s","e"," ","t",
             "h","a","t"," ","m","i","g","h","t"," ","h","e","l","p"," ","y",
             "o","u"," ","f","e","e","l"," ","m","o","r","e"," ","c","o","m",
             "f","o","r","t","a","b","l","e",".">>,
           <<"I","'","m"," ","h","e","r","e"," ","t","o"," ","s","u","p","p",
             "o","r","t"," ","y","o","u"," ","t","h","r","o","u","g","h"," ",
             "t","h","i","s"," ","p","r","o","c","e","s","s",".">> >>,
      excited |->
        << <<"E","n","j","o","y","!"," ","L","e","t"," ","m","e"," ","k","n",
             "o","w"," ","i","f"," ","y","o","u"," ","h","a","v","e"," ","a",
             "n","y"," ","o","t","h","e","r"," ","q","u","e","s","t","i","o",
             "n","s","!">>,
           <<"H","o","p","e"," ","y","o","u"," ","h","a","v","e"," ","a"," ",
             "g","r","e","a","t"," ","e","x","p","e","r","i","e","n","c","e",
             "!"," ","F","e","e","l"," ","f","r","e","e"," ","t","o"," ","r",
             "e","a","c","h"," ","o","u","t"," ","a","n","y","t","i","m","e",
             ".">>,
           <<"C","a","n","'","t"," ","w","a","i","t"," ","f","o","r"," ","y",
             "o","u"," ","t","o"," ","e","n","j","o","y"," ","t","h","i","s",
             "!"," ","A","s","k"," ","a","w","a","y"," ","i","f"," ","y","o",
             "u"," ","n","e","e","d"," ","m","o","r","e"," ","i","n","f","o",
             "!">> >>,
      neutral |->
        << <<"L","e","t"," ","m","e"," ","k","n","o","w"," ","i","f"," ","y",
             "o","u"," ","n","e","e","d"," ","a","n","y","t","h","i","n","g",
             " ","e","l","s","e",".">>,
           <<"F","e","e","l"," ","f","r","e","e"," ","t","o"," ","a","s","k",
             " ","i","f"," ","y","o","u"," ","h","a","v","e"," ","m","o","r",
             "e"," ","q","u","e","s","t","i","o","n","s",".">>,
           <<"I","'","m"," ","h","e","r","e"," ","i","f"," ","y","o","u"," ",
             "n","e","e","d"," ","a","d","d","i","t","i","o","n","a","l"," ",
             "i","n","f","o","r","m","a","t","i","o","n",".">> >> ]

empatheticIntros ==
    [ happy |->
        <<"I"," ","a","p","p","r","e","c","i","a","t","e"," ","y","o","u","r",
          " ","p","o","s","i","t","i","v","e"," ","e","n","e","r","g","y","!",
          " ","W","h","i","l","e"," ","I"," ","d","o","n","'","t"," ","h","a",
          "v","e"," ","a"," ","s","p","e","c","i","f","i","c"," ","a","n","s",
          "w","e","r"," ","t","o"," ","t","h","a","t"," ","e","x","a","c","t",
          " ","q","u","e","s","t","i","o","n",",">>,
      sad |->
        <<"I","'","m"," ","s","o","r","r","y"," ","I"," ","d","o","n","'","t",
          " ","h","a","v","e"," ","a"," ","d","i","r","e","c","t"," ","a","n",
          "s","w","e","r"," ","t","o"," ","y","o","u","r"," ","q","u","e","s",
          "t","i","o","n",".">>,
      angry |->
        <<"I"," ","u","n","d","e","r","s","t","a","n","d"," ","y","o","u"," ",
          "n","e","e","d"," ","i","n","f","o","r","m","a","t","i","o","n",",",
          " ","a","n","d"," ","I"," ","a","p","o","l","o","g","i","z","e"," ",
          "t","h","a","t"," ","I"," ","d","o","n","'","t"," ","h","a","v","e",
          " ","a"," ","s","p","e","c","i","f","i","c"," ","a","n","s","w","e",
          "r"," ","t","o"," ","t","h","a","t"," ","q","u","e","s","t","i","o",
          "n",".">>,
      frustrated |->
        <<"I"," ","c","a","n"," ","s","e","e"," ","y","o","u","'","r","e"," ",
          "l","o","o","k","i","n","g"," ","f","o","r"," ","s","p","e","c","i",
          "f","i","c"," ","i","n","f","o","r","m","a","t","i","o","n","."," ",
          "W","h","i","l","e"," ","I"," ","d","o","n","'","t"," ","h","a","v",
          "e"," ","t","h","a","t"," ","e","x","a","c","t"," ","a","n","s","w",
          "e","r",",">>,
      confused |->
        <<"T","h","a","t","'","s"," ","a"," ","g","r","e","a","t"," ","q","u",
          "e","s","t","i","o","n","!"," ","W","h","i","l","e"," ","I"," ","d",
          "o","n","'","t"," ","h","a","v","e"," ","t","h","a","t"," ","s","p",
          "e","c","i","f","i","c"," ","i","n","f","o","r","m","a","t","i","o",
          "n",",">>,
      anxious |->
        <<"I"," ","u","n","d","e","r","s","t","a","n","d"," ","y","o","u","'",
          "r","e"," ","l","o","o","k","i","n","g"," ","f","o","r"," ","c","l",
          "a","r","i","t","y","."," ","W","h","i","l","e"," ","I"," ","d","o",
          "n","'","t"," ","h","a","v","e"," ","t","h","a","t"," ","e","x","a",
          "c","t"," ","a","n","s","w","e","r",",">>,
      excited |->
        <<"I"," ","l","o","v","e"," ","y","o","u","r"," ","e","n","t","h","u",
          "s","i","a","s","m","!"," ","W","h","i","l","e"," ","I"," ","d","o",
          "n","'","t"," ","h","a","v","e"," ","t","h","a","t"," ","s","p","e",
          "c","i","f","i","c"," ","i","n","f","o","r","m","a","t","i","o","n",
          " ","r","i","g","h","t"," ","n","o","w",",">>,
      neutral |->
        <<"I"," ","d","o","n","'","t"," ","h","a","v","e"," ","a"," ","s","p",
          "e","c","i","f","i","c"," ","a","n","s","w","e","r"," ","t","o"," ",
          "t","h","a","t"," ","q","u","e","s","t","i","o","n",".">> ]

supportiveOutros ==
    [ happy |->
        <<"I","'","m"," ","s","u","r","e"," ","w","e"," ","c","a","n"," ","f",
          "i","n","d"," ","w","h","a","t"," ","y","o","u","'","r","e"," ","l",
          "o","o","k","i","n","g"," ","f","o","r"," ","t","o","g","e","t","h",
          "e","r","!">>,
      sad |->
        <<"I"," ","h","o","p","e"," ","t","h","e","s","e"," ","t","o","p","i",
          "c","s"," ","c","a","n"," ","s","t","i","l","l"," ","b","e"," ","h",
          "e","l","p","f","u","l"," ","t","o"," ","y","o","u",".">>,
      angry |->
        <<"I"," ","w","a","n","t"," ","t","o"," ","e","n","s","u","r","e"," ",
          "y","o","u"," ","g","e","t"," ","t","h","e"," ","h","e","l","p"," ",
          "y","o","u"," ","n","e","e","d",","," ","s","o"," ","p","l","e","a",
          "s","e"," ","t","r","y"," ","o","n","e"," ","o","f"," ","t","h","e",
          "s","e"," ","t","o","p","i","c","s",".">>,
      frustrated |->
        <<"I"," ","h","o","p","e"," ","o","n","e"," ","o","f"," ","t","h","e",
          "s","e"," ","t","o","p","i","c","s"," ","a","d","d","r","e","s","s",
          "e","s"," ","w","h","a","t"," ","y","o","u","'","r","e"," ","l","o",
          "o","k","i","n","g"," ","f","o","r","!">>,
      confused |->
        <<"I"," ","h","o","p","e"," ","o","n","e"," ","o","f"," ","t","h","e",
          "s","e"," ","c","o","m","m","o","n"," ","t","o","p","i","c","s"," ",
          "c","a","n"," ","h","e","l","p"," ","c","l","a","r","i","f","y"," ",
          "t","h","i","n","g","s"," ","f","o","r"," ","y","o","u","!">>,
      anxious |->
        <<"I","'","m"," ","c","o","n","f","i","d","e","n","t"," ","o","n","e",
          " ","o","f"," ","t","h","e","s","e"," ","t","o","p","i","c","s"," ",
          "w","i","l","l"," ","h","e","l","p"," ","a","d","d","r","e","s","s",
          " ","y","o","u","r"," ","n","e","e","d","s",".">>,
      excited |->
        <<"I","'","m"," ","s","u","r","e"," ","o","n","e"," ","o","f"," ","t",
          "h","e","s","e"," ","t","o","p","i","c","s"," ","w","i","l","l"," ",
          "b","e"," ","j","u","s","t"," ","w","h","a","t"," ","y","o","u"," ",
          "n","e","e","d","!">>,
      neutral |->
        <<"P","l","e","a","s","e"," ","t","r","y"," ","a","s","k","i","n","g",
          " ","a","b","o","u","t"," ","o","n","e"," ","o","f"," ","t","h","e",
          "s","e"," ","t","o","p","i","c","s",".">> ]

\* Math.floor(Math.random() * n)
RandomIndex(n) == 0..(n - 1)

\* variant: the answer is left out of the wrap
generateEmpatheticResponseNoBase(baseResponse, emotion, confidence, r1, r2) ==
    IF DoubleLess(confidence, Double(3, 10)) \/ emotion = "neutral"
    THEN baseResponse
    ELSE LET selectedPrefix == empatheticPrefixes[emotion][r1 + 1]
             selectedSuffix == supportiveSuffixes[emotion][r2 + 1]
         IN  selectedPrefix.acknowledgment \o <<" ">>
                 \o selectedPrefix.transition \o <<"\n", "\n">> \o selectedSuffix

\* variant: a confidence of exactly 0.3 is not wrapped either
generateEmpatheticResponseAtMost(baseResponse, emotion, confidence, r1, r2) ==
    IF DoubleLeq(confidence, Double(3, 10)) \/ emotion = "neutral"
    THEN baseResponse
    ELSE LET prefixes == empatheticPrefixes[emotion]
             suffixes == supportiveSuffixes[emotion]
             selectedPrefix == prefixes[r1 + 1]
             selectedSuffix == suffixes[r2 + 1]
         IN  selectedPrefix.acknowledgment \o <<" ">>
                 \o selectedPrefix.transition \o <<"\n", "\n">>
                 \o baseResponse \o <<"\n", "\n">> \o selectedSuffix

\* r1 and r2 are the two random indices drawn by the call
generateEmpatheticResponse(baseResponse, emotion, confidence, r1, r2) ==
    IF DoubleLess(confidence, Double(3, 10)) \/ emotion = "neutral"
    THEN baseResponse
    ELSE LET prefixes == empatheticPrefixes[emotion]
             suffixes == supportiveSuffixes[emotion]
             selectedPrefix == prefixes[r1 + 1]
             selectedSuffix == suffixes[r2 + 1]
         IN  selectedPrefix.acknowledgment \o <<" ">>
                 \o selectedPrefix.transition \o <<"\n", "\n">>
                 \o baseResponse \o <<"\n", "\n">> \o selectedSuffix

generateNoAnswerResponse(emotion, suggestedTopics) ==
    empatheticIntros[emotion] \o <<" ">> \o suggestedTopics
        \o <<"\n", "\n">> \o supportiveOutros[emotion]

(***************************************************************************)
(* faqRepository and the composer of emotionHelper.                        *)
(***************************************************************************)
getDefaultFaqs ==
    << [ id |-> <<"d","e","f","a","u","l","t","-","1">>,
         question |->
           <<"W","h","a","t"," ","i","s"," ","t","h","e"," ","r","e","f","u",
             "n","d"," ","p","o","l","i","c","y","?">>,
         answer |->
           <<"R","e","f","u","n","d","s"," ","a","r","e"," ","a","v","a","i",
             "l","a","b","l","e"," ","u","p"," ","t","o"," ","2","4"," ","h",
             "o","u","r","s"," ","b","e","f","o","r","e"," ","t","h","e"," ",
             "s","h","o","w","t","i","m","e","."," ","C","o","n","t","a","c",
             "t"," ","s","u","p","p","o","r","t"," ","f","o","r"," ","a","s",
             "s","i","s","t","a","n","c","e",".">>,
         category |-> <<"R","e","f","u","n","d","s">>,
         keywords |->
           <<"r","e","f","u","n","d",",","c","a","n","c","e","l","l","a","t",
             "i","o","n",",","r","e","f","u","n","d"," ","p","o","l","i","c",
             "y",",","m","o","n","e","y"," ","b","a","c","k">> ],
       [ id |-> <<"d","e","f","a","u","l","t","-","2">>,
         question |->
           <<"H","o","w"," ","c","a","n"," ","I"," ","c","h","a","n","g","e",
             " ","m","y"," ","s","e","a","t","?">>,
         answer |->
           <<"S","e","a","t"," ","c","h","a","n","g","e","s"," ","a","r","e",
             " ","a","l","l","o","w","e","d"," ","d","e","p","e","n","d","i",
             "n","g"," ","o","n"," ","a","v","a","i","l","a","b","i","l","i",
             "t","y","."," ","G","o"," ","t","o"," ","y","o","u","r"," ","b",
             "o","o","k","i","n","g"," ","a","n","d"," ","s","e","l","e","c",
             "t"," ","\"","C","h","a","n","g","e"," ","S","e","a","t","s",
             "\"",".">>,
         category |-> <<"B","o","o","k","i","n","g">>,
         keywords |->
           <<"s","e","a","t"," ","c","h","a","n","g","e",",","s","e","a","t",
             "s",",","c","h","a","n","g","e"," ","b","o","o","k","i","n","g",
             ",","m","o","d","i","f","y"," ","s","e","a","t","s">> ],
       [ id |-> <<"d","e","f","a","u","l","t","-","3">>,
         question |->
           <<"A","r","e"," ","c","h","i","l","d","r","e","n"," ","a","l","l",
             "o","w","e","d","?">>,
         answer |->
           <<"C","h","i","l","d","r","e","n"," ","a","r","e"," ","a","l","l",
             "o","w","e","d",";"," ","p","a","r","e","n","t","a","l"," ","g",
             "u","i","d","a","n","c","e"," ","m","a","y"," ","b","e"," ","r",
             "e","q","u","i","r","e","d"," ","f","o","r"," ","c","e","r","t",
             "a","i","n"," ","r","a","t","i","n","g","s","."," ","C","h","e",
             "c","k"," ","t","h","e"," ","m","o","v","i","e"," ","r","a","t",
             "i","n","g",".">>,
         category |-> <<"P","o","l","i","c","i","e","s">>,
         keywords |->
           <<"c","h","i","l","d","r","e","n",",","a","g","e",",","a","g","e",
             " ","r","e","s","t","r","i","c","t","i","o","n","s",",","k","i",
             "d","s",",","f","a","m","i","l","y">> ],
       [ id |-> <<"d","e","f","a","u","l","t","-","4">>,
         question |->
           <<"W","h","a","t"," ","a","r","e"," ","t","h","e"," ","t","i","c",
             "k","e","t"," ","p","r","i","c","e","s","?">>,
         answer |->
           <<"T","i","c","k","e","t"," ","p","r","i","c","e","s"," ","v","a",
             "r","y"," ","b","y"," ","t","h","e","a","t","e","r"," ","a","n",
             "d"," ","s","h","o","w","t","i","m","e","."," ","W","e"," ","a",
             "c","c","e","p","t"," ","c","r","e","d","i","t","/","d","e","b",
             "i","t"," ","c","a","r","d","s",","," ","A","p","p","l","e"," ",
             "P","a","y",","," ","G","o","o","g","l","e"," ","P","a","y",",",
             " ","a","n","d"," ","m","a","j","o","r"," ","U","P","I","/","N",
             "e","t","B","a","n","k","i","n","g"," ","m","e","t","h","o","d",
             "s"," ","w","h","e","r","e"," ","a","v","a","i","l","a","b","l",
             "e","."," ","S","e","r","v","i","c","e"," ","f","e","e","s"," ",
             "m","a","y"," ","a","p","p","l","y",".">>,
         category |-> <<"T","i","c","k","e","t","i","n","g">>,
         keywords |->
           <<"t","i","c","k","e","t"," ","p","r","i","c","e",",","p","r","i",
             "c","e",",","p","a","y","m","e","n","t",",","p","a","y","m","e",
             "n","t"," ","o","p","t","i","o","n","s",",","c","o","s","t",",",
             "h","o","w"," ","m","u","c","h">> ],
       [ id |-> <<"d","e","f","a","u","l","t","-","5">>,
         question |->
           <<"H","o","w"," ","d","o"," ","I"," ","c","h","e","c","k"," ","s",
             "h","o","w"," ","t","i","m","i","n","g","s","?">>,
         answer |->
           <<"S","h","o","w"," ","t","i","m","i","n","g","s"," ","a","r","e",
             " ","l","i","s","t","e","d"," ","o","n"," ","t","h","e"," ","m",
             "o","v","i","e"," ","d","e","t","a","i","l","s"," ","p","a","g",
             "e","."," ","C","l","i","c","k"," ","a"," ","m","o","v","i","e",
             " ","t","o"," ","s","e","e"," ","a","v","a","i","l","a","b","l",
             "e"," ","s","h","o","w","t","i","m","e","s"," ","a","n","d"," ",
             "s","e","a","t"," ","a","v","a","i","l","a","b","i","l","i","t",
             "y"," ","f","o","r"," ","e","a","c","h"," ","t","i","m","e",".",
             " ","Y","o","u"," ","c","a","n"," ","a","l","s","o"," ","f","i",
             "l","t","e","r"," ","b","y"," ","d","a","t","e"," ","a","n","d",
             " ","t","h","e","a","t","e","r",".">>,
         category |-> <<"S","h","o","w","t","i","m","e","s">>,
         keywords |->
           <<"s","h","o","w"," ","t","i","m","i","n","g",",","s","h","o","w",
             " ","t","i","m","i","n","g","s",",","a","v","a","i","l","a","b",
             "i","l","i","t","y",",","s","h","o","w","t","i","m","e",",","s",
             "h","o","w"," ","t","i","m","e","s",",","w","h","e","n">> ],
       [ id |-> <<"d","e","f","a","u","l","t","-","6">>,
         question |->
           <<"H","o","w"," ","d","o","e","s"," ","t","h","e"," ","b","o","o",
             "k","i","n","g"," ","p","r","o","c","e","s","s"," ","w","o","r",
             "k","?">>,
         answer |->
           <<"S","e","l","e","c","t"," ","a"," ","m","o","v","i","e",","," ",
             "p","i","c","k"," ","a"," ","s","h","o","w","t","i","m","e",",",
             " ","c","h","o","o","s","e"," ","y","o","u","r"," ","s","e","a",
             "t","s",","," ","a","n","d"," ","c","o","m","p","l","e","t","e",
             " ","p","a","y","m","e","n","t","."," ","Y","o","u"," ","w","i",
             "l","l"," ","r","e","c","e","i","v","e"," ","a","n"," ","e","m",
             "a","i","l"," ","c","o","n","f","i","r","m","a","t","i","o","n",
             " ","a","n","d"," ","e","-","t","i","c","k","e","t"," ","a","f",
             "t","e","r"," ","s","u","c","c","e","s","s","f","u","l"," ","p",
             "a","y","m","e","n","t",".">>,
         category |-> <<"B","o","o","k","i","n","g">>,
         keywords |->
           <<"b","o","o","k","i","n","g"," ","p","r","o","c","e","s","s",",",
             "h","o","w"," ","t","o"," ","b","o","o","k",",","b","o","o","k",
             " ","t","i","c","k","e","t","s",",","m","a","k","e"," ","r","e",
             "s","e","r","v","a","t","i","o","n">> ],
       [ id |-> <<"d","e","f","a","u","l","t","-","7">>,
         question |->
           <<"W","h","a","t"," ","a","r","e"," ","t","h","e"," ","a","g","e",
             " ","r","e","s","t","r","i","c","t","i","o","n","s","?">>,
         answer |->
           <<"M","o","v","i","e","s"," ","a","r","e"," ","r","a","t","e","d",
             " ","a","c","c","o","r","d","i","n","g"," ","t","o"," ","l","o",
             "c","a","l"," ","g","u","i","d","e","l","i","n","e","s"," ","(",
             "e",".","g",".",","," ","U",","," ","P","G",","," ","P","G","-",
             "1","3",","," ","R",")","."," ","P","l","e","a","s","e"," ","c",
             "h","e","c","k"," ","t","h","e"," ","m","o","v","i","e"," ","r",
             "a","t","i","n","g"," ","o","n"," ","t","h","e"," ","d","e","t",
             "a","i","l","s"," ","p","a","g","e","."," ","S","o","m","e"," ",
             "t","h","e","a","t","e","r","s"," ","m","a","y"," ","e","n","f",
             "o","r","c","e"," ","I","D"," ","c","h","e","c","k","s"," ","f",
             "o","r"," ","a","g","e","-","r","e","s","t","r","i","c","t","e",
             "d"," ","s","c","r","e","e","n","i","n","g","s",".">>,
         category |-> <<"P","o","l","i","c","i","e","s">>,
         keywords |->
           <<"a","g","e"," ","r","e","s","t","r","i","c","t","i","o","n",",",
             "a","g","e"," ","r","e","s","t","r","i","c","t","i","o","n","s",
             ",","r","a","t","i","n","g",",","r","a","t","e","d",",","m","a",
             "t","u","r","e"," ","c","o","n","t","e","n","t">> ] >>
sampleFaqs == getDefaultFaqs

\* `${x}` for a string-or-undefined x
TemplateText(x) ==
    IF x = Undefined THEN <<"u","n","d","e","f","i","n","e","d">> ELSE x

TopicsHeader ==
    <<"H","e","r","e"," ","a","r","e"," ","s","o","m","e"," ","c","o","m","m",
      "o","n"," ","t","o","p","i","c","s"," ","I"," ","c","a","n"," ","h","e",
      "l","p"," ","w","i","t","h",":">>

\* variant: the bullets are listed from the last catalog entry to the first
suggestedTopicsReversed(catalog) ==
    LET suggestions ==
            join([k \in 1..Len(catalog) |->
                     <<"U+2022", " ">>
                         \o TemplateText(Field(catalog[Len(catalog) + 1 - k], "question"))],
                 <<"\n">>)
    IN  TopicsHeader \o <<"\n", "\n">> \o suggestions

\* the no-answer branch: the topics block over the catalog and the template
suggestedTopicsOf(catalog) ==
    LET suggestions ==
            join([k \in 1..Len(catalog) |->
                     <<"U+2022", " ">> \o TemplateText(Field(catalog[k], "question"))],
                 <<"\n">>)
    IN  TopicsHeader \o <<"\n", "\n">> \o suggestions

\* faq.emotion_answers && faq.emotion_answers[emotion]
emoOverrideOf(faq, emotion) ==
    IF "emotion_answers" \in DOMAIN faq
    THEN Field(faq.emotion_answers, emotion)
    ELSE Undefined

\* a ?? b
Coalesce(a, b) == IF a = Undefined \/ a = Null THEN b ELSE a

\* the truthiness of a string-or-undefined value
Truthy(x) == x # Undefined /\ x # Null /\ x # <<>>

\* the answer branches of analyzeAndRespond, for a match that has an FAQ
answerFrom(faq, emotionResult, r1, r2) ==
    LET emoOverride == emoOverrideOf(faq, emotionResult.emotion)
        selectedBase == Coalesce(emoOverride, Coalesce(Field(faq, "answer"), Null))
    IN  [baseAnswer |-> selectedBase,
         reply |-> IF Truthy(emoOverride) THEN emoOverride
                   ELSE generateEmpatheticResponse(
                            IF Truthy(selectedBase) THEN selectedBase ELSE <<>>,
                            emotionResult.emotion, emotionResult.confidence,
                            r1, r2)]

\* variant: the threshold is 0.1
usableMatchTenth(m) == "faq" \in DOMAIN m /\ DoubleLeq(Double(1, 10), m.score)

\* variant: the threshold is 0.5
usableMatchHalf(m) == "faq" \in DOMAIN m /\ DoubleLeq(Double(1, 2), m.score)

\* match.faq && match.score >= 0.35
usableMatch(m) == "faq" \in DOMAIN m /\ DoubleLeq(Double(7, 20), m.score)

\* match.faq && match.score === 1
directMatch(m) == "faq" \in DOMAIN m /\ m.score = One

\* selectedBase and reply for the match m: the answer of the matched FAQ
\* when the match is usable or exact, the no-answer response otherwise
chosenReply(m, emotionResult, catalog, r1, r2) ==
    IF usableMatch(m)
    THEN answerFrom(m.faq, emotionResult, r1, r2)
    ELSE IF directMatch(m)
    THEN answerFrom(m.faq, emotionResult, r1, r2)
    ELSE [baseAnswer |-> Null,
          reply |-> generateNoAnswerResponse(emotionResult.emotion,
                                             suggestedTopicsOf(catalog))]

\* the AnalysisResult that is returned for the emotion and the match found
composeOver(t, catalog, emotionResult, m, r1, r2) ==
    IF m = Raised THEN Raised
    ELSE [input |-> t,
          emotion |-> emotionResult.emotion,
          confidence |-> emotionResult.confidence,
          keywords |-> emotionResult.keywords,
          baseAnswer |->
              chosenReply(m, emotionResult, catalog, r1, r2).baseAnswer,
          reply |-> chosenReply(m, emotionResult, catalog, r1, r2).reply]

\* the body of analyzeAndRespond over a catalog
analyzeOver(t, catalog, r1, r2) ==
    composeOver(t, catalog, detectEmotion(t), findFaq(t, catalog), r1, r2)

analyzeAndRespond(t, r1, r2) == analyzeOver(t, sampleFaqs, r1, r2)

analyzeEmotion(t) == detectEmotion(t)

(***************************************************************************)
(* voiceHelper: listenOnce, the events of the recognizer and the safety    *)
(* timeout.                                                                *)
(***************************************************************************)
NotSupportedError ==
    <<"S","p","e","e","c","h"," ","r","e","c","o","g","n","i","t","i","o",
      "n"," ","n","o","t"," ","s","u","p","p","o","r","t","e","d"," ","i",
      "n"," ","t","h","i","s"," ","b","r","o","w","s","e","r",".">>

SpeechRecognitionError ==
    <<"S","p","e","e","c","h"," ","r","e","c","o","g","n","i","t","i","o",
      "n"," ","e","r","r","o","r">>

NoSpeechDetected ==
    <<"N","o"," ","s","p","e","e","c","h"," ","d","e","t","e","c","t","e",
      "d">>

FailedToStart ==
    <<"F","a","i","l","e","d"," ","t","o"," ","s","t","a","r","t"," ","s",
      "p","e","e","c","h"," ","r","e","c","o","g","n","i","t","i","o","n">>

ListeningTimedOut ==
    <<"L","i","s","t","e","n","i","n","g"," ","t","i","m","e","d"," ","o",
      "u","t">>

Pending == [state |-> "pending"]

Resolved(value) == [state |-> "resolved", value |-> value]

\* resolve(value) of the promise p: a settled promise keeps its outcome
resolve(p, value) == IF p = Pending THEN Resolved(value) ELSE p

\* the events a recognizer dispatches: a result with or without a
\* transcript, an error with a code, with an empty code or without a code,
\* and end
RecognizerEvents ==
    { [type |-> "result", payload |-> <<"h","i">>],
      [type |-> "result", payload |-> Undefined],
      [type |-> "error", payload |-> <<"n","o","-","s","p","e","e","c","h">>],
      [type |-> "error", payload |-> <<>>],
      [type |-> "error", payload |-> Undefined],
      [type |-> "end", payload |-> Undefined] }

\* before listenOnce is called, in a browser without speech recognition
NotListening ==
    /\ recognitionSupported = FALSE
    /\ promise = NotCalled
    /\ finished = FALSE
    /\ listeners = {}
    /\ recogStarted = FALSE
    /\ listenTimer = "none"
    /\ dispatched = <<>>

\* cleanup(): the three listeners are removed and recog.stop() is called
cleanup == listeners' = {}

\* listenOnce up to its return: the promise executor
ListenOnce ==
    /\ promise = NotCalled
    /\ IF ~recognitionSupported
       THEN /\ promise' = Resolved([error |-> NotSupportedError])
            /\ UNCHANGED <<listeners, recogStarted, listenTimer>>
       ELSE \E startThrows \in BOOLEAN :
               IF startThrows
               THEN /\ cleanup
                    /\ promise' = Resolved([error |-> FailedToStart])
                    /\ UNCHANGED <<recogStarted, listenTimer>>
               ELSE /\ listeners' = {"result", "error", "end"}
                    /\ recogStarted' = TRUE
                    /\ listenTimer' = "armed"
                    /\ promise' = Pending
    /\ UNCHANGED <<callVars, chatVars, recognitionSupported, finished, dispatched,
                   bookingVars, voiceVars>>

onResult(ev) ==
    /\ finished' = TRUE
    /\ cleanup
    /\ promise' = resolve(promise, [transcript |-> ev.payload])

onError(ev) ==
    /\ finished' = TRUE
    /\ cleanup
    /\ promise' = resolve(promise,
          [error |-> IF Truthy(ev.payload) THEN ev.payload
                     ELSE SpeechRecognitionError])

\* variant: the end of the recognition is ignored
onEndIgnored ==
    /\ finished' = TRUE
    /\ cleanup
    /\ promise' = promise

onEnd ==
    IF ~finished
    THEN /\ finished' = TRUE
         /\ cleanup
         /\ promise' = resolve(promise, [error |-> NoSpeechDetected])
    ELSE UNCHANGED <<finished, listeners, promise>>

\* the recognizer has dispatched its end event
RecognitionEnded ==
    /\ dispatched # <<>>
    /\ dispatched[Len(dispatched)].type = "end"

\* the recognizer dispatches an event, which runs the listener registered
\* for its type; nothing follows the end event
RecognizerDispatches ==
    /\ recogStarted
    /\ Len(dispatched) < MaxEvents
    /\ ~RecognitionEnded
    /\ \E ev \in RecognizerEvents :
          /\ dispatched' = Append(dispatched, ev)
          /\ IF ev.type \notin listeners
             THEN UNCHANGED <<finished, listeners, promise>>
             ELSE IF ev.type = "result" THEN onResult(ev)
             ELSE IF ev.type = "error" THEN onError(ev)
             ELSE onEnd
    /\ UNCHANGED <<callVars, chatVars, recognitionSupported, recogStarted,
                   listenTimer, bookingVars, voiceVars>>

\* the callback of the safety timeout
ListenTimeout ==
    /\ listenTimer = "armed"
    /\ listenTimer' = "fired"
    /\ IF ~finished
       THEN /\ finished' = TRUE
            /\ cleanup
            /\ promise' = resolve(promise, [error |-> ListeningTimedOut])
       ELSE UNCHANGED <<finished, listeners, promise>>
    /\ UNCHANGED <<callVars, chatVars, recognitionSupported, recogStarted,
                   dispatched, bookingVars, voiceVars>>

(***************************************************************************)
(* components/BookingForm: the forms open on one showtime, handleSubmit    *)
(* and the tables showtimes and bookings.                                  *)
(***************************************************************************)
ShowtimeId == <<"s","1">>

Forms == 1..MaxForms

NotEnoughSeats ==
    <<"N","o","t"," ","e","n","o","u","g","h"," ","s","e","a","t","s"," ",
      "a","v","a","i","l","a","b","l","e">>

FailedToCreateBooking ==
    <<"F","a","i","l","e","d"," ","t","o"," ","c","r","e","a","t","e"," ",
      "b","o","o","k","i","n","g">>

\* the message of an Error thrown by a request
RequestFailed ==
    <<"F","a","i","l","e","d"," ","t","o"," ","f","e","t","c","h">>

\* no form was opened, the showtime has no seat
NoBookingForms ==
    /\ showtimeRow = [id |-> ShowtimeId, available_seats |-> 0, total_seats |-> 0]
    /\ bookings = <<>>
    /\ bookingForms = <<>>

\* the message of the TypeError of booking.id when booking is null
CannotReadId ==
    <<"C","a","n","n","o","t"," ","r","e","a","d"," ","p","r","o","p","e",
      "r","t","i","e","s"," ","o","f"," ","n","u","l","l"," ","(","r","e",
      "a","d","i","n","g"," ","'","i","d","'",")">>

\* a visitor whose MovieDetails page has just been mounted and whose
\* BookingForm is not mounted yet: the showtimes of the page ("loading"
\* until fetchShowtimes is answered, then "listed" or "empty"), the
\* available_seats of the showtime it lists, the useState values of the
\* form, and the handleSubmit call in progress (none): the request it
\* awaits, the seatsBooked of the render it was called in, the position of
\* the row of its booking (0 when the insert returned none), and whether
\* its update has changed the showtime
FormClosed ==
    [ showtimes |-> "loading", mounted |-> FALSE, closed |-> FALSE,
      available_seats |-> 0, seatsBooked |-> 1, loading |-> FALSE,
      success |-> FALSE, error |-> Null, request |-> "none", submitted |-> 0,
      booking |-> 0, seatsWritten |-> FALSE ]

\* err instanceof Error ? err.message : 'Failed to create booking', for the
\* error object of a response (isError: it is an instance of Error) and for
\* a thrown Error
ErrorMessage(outcome, isError) ==
    IF outcome = "thrown" \/ isError THEN RequestFailed
    ELSE FailedToCreateBooking

\* fetchShowtimes of the mount effect of MovieDetails, when the query is
\* answered: the page lists the showtime as the response holds it, or
\* nothing when the response has no row or reports an error
FetchShowtimes ==
    \E f \in Forms :
        /\ bookingForms[f].showtimes = "loading"
        /\ \E outcome \in {"data", "noData", "error"} :
              bookingForms' =
                  IF outcome = "data"
                  THEN [bookingForms EXCEPT
                           ![f].showtimes = "listed",
                           ![f].available_seats = showtimeRow.available_seats]
                  ELSE [bookingForms EXCEPT ![f].showtimes = "empty"]
        /\ UNCHANGED <<callVars, chatVars, listenVars, showtimeRow, bookings, voiceVars>>

\* the Book Now button of the listed showtime, disabled when the page holds
\* available_seats = 0 for it: the form is mounted with the showtime of the
\* page
OpenBookingForm ==
    \E f \in Forms :
        /\ bookingForms[f].showtimes = "listed"
        /\ bookingForms[f].available_seats # 0
        /\ ~bookingForms[f].mounted
        /\ ~bookingForms[f].closed
        /\ bookingForms' = [bookingForms EXCEPT ![f].mounted = TRUE]
        /\ UNCHANGED <<callVars, chatVars, listenVars, showtimeRow, bookings, voiceVars>>

\* onClose (the X button, or Done on the success screen): the instance is
\* unmounted; a handleSubmit call in progress goes on
CloseBookingForm ==
    \E f \in Forms :
        /\ bookingForms[f].mounted
        /\ bookingForms' = [bookingForms EXCEPT ![f].mounted = FALSE,
                                                ![f].closed = TRUE]
        /\ UNCHANGED <<callVars, chatVars, listenVars, showtimeRow, bookings, voiceVars>>

\* the form of the instance f is on the screen: it is mounted and does not
\* show the success screen
FormShown(f) == bookingForms[f].mounted /\ ~bookingForms[f].success

\* the select of the number of seats: 1..min(10, showtime.available_seats)
SetSeatsBooked ==
    \E f \in Forms :
        /\ FormShown(f)
        /\ \E n \in 1..Min2(10, bookingForms[f].available_seats) :
              /\ n # bookingForms[f].seatsBooked
              /\ bookingForms' = [bookingForms EXCEPT ![f].seatsBooked = n]
        /\ UNCHANGED <<callVars, chatVars, listenVars, showtimeRow, bookings, voiceVars>>

\* handleSubmit up to its first await, or to its end when it throws before;
\* the submit button is disabled while loading
HandleSubmit ==
    \E f \in Forms :
        /\ FormShown(f)
        /\ ~bookingForms[f].loading
        /\ Len(bookings) < MaxBookings
        /\ bookingForms' =
              IF bookingForms[f].seatsBooked > bookingForms[f].available_seats
              THEN [bookingForms EXCEPT ![f].loading = FALSE,
                                        ![f].error = NotEnoughSeats]
              ELSE [bookingForms EXCEPT
                       ![f].loading = TRUE,
                       ![f].error = Null,
                       ![f].request = "insert",
                       ![f].submitted = bookingForms[f].seatsBooked,
                       ![f].booking = 0,
                       ![f].seatsWritten = FALSE]
        /\ UNCHANGED <<callVars, chatVars, listenVars, showtimeRow, bookings, voiceVars>>

\* the catch and finally blocks of handleSubmit: setError and
\* setLoading(false), which do nothing once the instance is unmounted
SubmitFailed(f, message) ==
    IF bookingForms[f].mounted
    THEN [bookingForms EXCEPT ![f].request = "none", ![f].loading = FALSE,
                              ![f].error = message]
    ELSE [bookingForms EXCEPT ![f].request = "none"]

\* handleSubmit after the insert into bookings: the row was inserted, or
\* the response holds neither a row nor an error, and the update is sent;
\* or the insert reported an error, or the await threw
BookingInsertSettles ==
    \E f \in Forms :
        /\ bookingForms[f].request = "insert"
        /\ \E outcome \in {"inserted", "neither", "error", "thrown"},
              isError \in BOOLEAN :
              /\ bookings' =
                    IF outcome = "inserted"
                    THEN Append(bookings,
                                [ showtime_id |-> ShowtimeId,
                                  customer_name |-> f,
                                  seats_booked |-> bookingForms[f].submitted ])
                    ELSE bookings
              /\ bookingForms' =
                    IF outcome = "inserted"
                    THEN [bookingForms EXCEPT ![f].request = "update",
                                              ![f].booking = Len(bookings) + 1]
                    ELSE IF outcome = "neither"
                    THEN [bookingForms EXCEPT ![f].request = "update"]
                    ELSE SubmitFailed(f, ErrorMessage(outcome, isError))
        /\ UNCHANGED <<callVars, chatVars, listenVars, showtimeRow, voiceVars>>

\* newAvailableSeats = showtime.available_seats - seatsBooked, from the
\* showtime the form was mounted with and the render handleSubmit was
\* called in
newAvailableSeats(f) ==
    bookingForms[f].available_seats - bookingForms[f].submitted

\* handleSubmit after the update of showtimes: available_seats was written,
\* or the update was answered without an error and changed no row (the
\* showtimes table has row level security and no policy for updates); then
\* setBookingId(booking.id) throws when the insert returned no row, and the
\* success screen is shown otherwise. Or the update reported an error, or
\* the await threw
ShowtimeUpdateSettles ==
    \E f \in Forms :
        /\ bookingForms[f].request = "update"
        /\ \E outcome \in {"updated", "noRow", "error", "thrown"},
              isError \in BOOLEAN :
              /\ showtimeRow' =
                    IF outcome = "updated"
                    THEN [showtimeRow EXCEPT
                             !.available_seats = newAvailableSeats(f)]
                    ELSE showtimeRow
              /\ \E settled \in {
                       IF outcome \notin {"updated", "noRow"}
                       THEN SubmitFailed(f, ErrorMessage(outcome, isError))
                       ELSE IF bookingForms[f].booking = 0
                       THEN SubmitFailed(f, CannotReadId)
                       ELSE IF bookingForms[f].mounted
                       THEN [bookingForms EXCEPT ![f].request = "none",
                                                 ![f].loading = FALSE,
                                                 ![f].success = TRUE]
                       ELSE [bookingForms EXCEPT ![f].request = "none"] } :
                    bookingForms' = [settled EXCEPT
                        ![f].seatsWritten = (outcome = "updated")]
        /\ UNCHANGED <<callVars, chatVars, listenVars, bookings, voiceVars>>

(***************************************************************************)
(* components/Chatbot: the state of the component, its effects and         *)
(* handlers, and the Supabase tables it writes.                            *)
(***************************************************************************)
ConversationRowId == <<"c","1">>

FetchedFaq ==
    [ id |-> <<"f","1">>,
      question |-> <<"C","a","n"," ","I"," ","g","e","t"," ","a"," ","r","e",
                     "f","u","n","d","?">>,
      answer |-> <<"N","o"," ","r","e","f","u","n","d","s",".">>,
      category |-> <<"R","e","f","u","n","d","s">>,
      keywords |-> <<"r","e","f","u","n","d">> ]

\* data: null of a query response
NoData == "null"

\* the answers of the faqs query: rows, no rows, no data, an error, and the
\* await throwing
FaqsResponses ==
    << [data |-> <<FetchedFaq>>, error |-> Null, thrown |-> FALSE],
       [data |-> <<>>, error |-> Null, thrown |-> FALSE],
       [data |-> NoData, error |-> Null, thrown |-> FALSE],
       [data |-> NoData, error |-> <<"e","r","r","o","r">>, thrown |-> FALSE],
       [data |-> NoData, error |-> Null, thrown |-> TRUE] >>

ChatInputs ==
    { <<" ">>,
      <<" ","r","e","f","u","n","d"," ">>,
      <<"s","e","a","t","s","!">> }

\* what the recognizer heard in a VoiceChat session
VoiceTranscripts ==
    { <<" ">>,
      <<"s","e","a","t","s">> }

\* the state of the component before it is mounted
ChatUnmounted ==
    /\ supabaseEnabled = FALSE
    /\ isOpen = FALSE
    /\ isMinimized = FALSE
    /\ messages = <<>>
    /\ faqsState = <<>>
    /\ conversationId = Null
    /\ fetchFAQsTask = "notStarted"
    /\ faqsResponse = NotCalled
    /\ conversationInsert = "none"
    /\ replyTimers = <<>>
    /\ dbRequests = <<>>
    /\ conversationMessages = <<>>
    /\ conversations = <<>>
    /\ dbFailed = FALSE

WelcomeText ==
    <<"H","e","l","l","o","!"," ","I","'","m"," ","y","o","u","r"," ","m","o",
      "v","i","e"," ","b","o","o","k","i","n","g"," ","a","s","s","i","s","t",
      "a","n","t","."," ","H","o","w"," ","c","a","n"," ","I"," ","h","e","l",
      "p"," ","y","o","u"," ","t","o","d","a","y","?"," ","Y","o","u"," ","c",
      "a","n"," ","a","s","k"," ","m","e"," ","a","b","o","u","t"," ","t","i",
      "c","k","e","t"," ","p","r","i","c","e","s",","," ","s","h","o","w"," ",
      "t","i","m","i","n","g","s",","," ","c","a","n","c","e","l","l","a","t",
      "i","o","n"," ","p","o","l","i","c","y",","," ","o","r"," ","a","n","y",
      "t","h","i","n","g"," ","e","l","s","e","!">>

\* variant: the fetched data is stored as it came
fetchedCatalogRaw(data) == data

\* (data as FAQ[]) || []
fetchedCatalog(data) == IF data = NoData THEN <<>> ELSE data

\* saveMessageToDatabase as called from a render in which the state
\* conversationId is conv and messages.length is count: the request it sends
saveMessageToDatabase(conv, count, message) ==
    IF ~supabaseEnabled \/ conv = Null THEN <<>>
    ELSE << [ op |-> "insert",
              conversation_id |-> conv,
              message_text |-> message.text,
              is_bot |-> message.isBot,
              message_count |-> count + 1 ] >>

\* the mount effect: fetchFAQs up to its first await
MountEffect ==
    /\ fetchFAQsTask = "notStarted"
    /\ IF ~supabaseEnabled
       THEN /\ faqsState' = sampleFaqs
            /\ fetchFAQsTask' = "finished"
       ELSE /\ faqsState' = faqsState
            /\ fetchFAQsTask' = "awaiting"
    /\ UNCHANGED <<callVars, supabaseEnabled, isOpen, isMinimized, messages, conversationId,
                   faqsResponse, conversationInsert, replyTimers, dbRequests,
                   conversationMessages, conversations, dbFailed, listenVars,
                   bookingVars, voiceVars>>

\* fetchFAQs after the await: the query answered, or the await threw
FetchFAQsSettles ==
    /\ fetchFAQsTask = "awaiting"
    /\ \E k \in 1..Len(FaqsResponses) :
          LET response == FaqsResponses[k]
          IN  /\ faqsResponse' = response
              /\ faqsState' = IF response.thrown \/ response.error # Null
                              THEN sampleFaqs
                              ELSE fetchedCatalog(response.data)
    /\ fetchFAQsTask' = "finished"
    /\ UNCHANGED <<callVars, supabaseEnabled, isOpen, isMinimized, messages, conversationId,
                   conversationInsert, replyTimers, dbRequests,
                   conversationMessages, conversations, dbFailed, listenVars,
                   bookingVars, voiceVars>>

\* variant: the effect on isOpen does not look at the transcript
OpenChatAlways ==
    /\ fetchFAQsTask # "notStarted"
    /\ ~isOpen
    /\ isOpen' = TRUE
    /\ isMinimized' = FALSE
    /\ LET message == [id |-> Len(messages) + 1, text |-> WelcomeText,
                       isBot |-> TRUE]
       IN  /\ conversationInsert' =
                 IF ~supabaseEnabled \/ conversationId # Null
                 THEN conversationInsert ELSE "awaiting"
           /\ messages' = Append(messages, message)
           /\ dbRequests' = dbRequests \o
                 saveMessageToDatabase(conversationId, Len(messages), message)
    /\ UNCHANGED <<callVars, supabaseEnabled, faqsState, conversationId,
                   fetchFAQsTask, faqsResponse, replyTimers,
                   conversationMessages, conversations, dbFailed, listenVars,
                   bookingVars, voiceVars>>

\* the toggle button, followed by the effect on isOpen: on the first opening
\* initializeConversation and the welcome message
OpenChat ==
    /\ fetchFAQsTask # "notStarted"
    /\ ~isOpen
    /\ isOpen' = TRUE
    /\ isMinimized' = FALSE
    /\ IF Len(messages) = 0
       THEN LET message == [id |-> 1, text |-> WelcomeText, isBot |-> TRUE]
            IN  /\ conversationInsert' =
                      IF ~supabaseEnabled \/ conversationId # Null
                      THEN conversationInsert ELSE "awaiting"
                /\ messages' = Append(messages, message)
                /\ dbRequests' = dbRequests \o
                      saveMessageToDatabase(conversationId, Len(messages), message)
       ELSE UNCHANGED <<conversationInsert, messages, dbRequests>>
    /\ UNCHANGED <<callVars, supabaseEnabled, faqsState, conversationId,
                   fetchFAQsTask, faqsResponse, replyTimers,
                   conversationMessages, conversations, dbFailed, listenVars,
                   bookingVars, voiceVars>>

\* VoiceChat after the dialog body it is rendered in is taken off the
\* screen: the instance is unmounted, the instance mounted next starts with
\* listening false, and the startListen calls in progress go on with the
\* onReply they were started with
VoiceChatUnmounted ==
    [voiceChat EXCEPT
        !.listening = FALSE,
        !.sessions = [k \in 1..Len(voiceChat.sessions) |->
                         [voiceChat.sessions[k] EXCEPT !.mounted = FALSE]]]

\* the close button or the Escape key
CloseChat ==
    /\ isOpen
    /\ isOpen' = FALSE
    /\ voiceChat' = IF isMinimized THEN voiceChat ELSE VoiceChatUnmounted
    /\ UNCHANGED <<callVars, supabaseEnabled, isMinimized, messages, faqsState,
                   conversationId, fetchFAQsTask, faqsResponse,
                   conversationInsert, replyTimers, dbRequests,
                   conversationMessages, conversations, dbFailed, listenVars,
                   bookingVars>>

\* the minimize button: setIsMinimized((s) => !s); the transcript, the input
\* and VoiceChat are rendered only while the dialog is not minimized
ToggleMinimized ==
    /\ isOpen
    /\ isMinimized' = ~isMinimized
    /\ voiceChat' = IF isMinimized THEN voiceChat ELSE VoiceChatUnmounted
    /\ UNCHANGED <<callVars, supabaseEnabled, isOpen, messages, faqsState,
                   conversationId, fetchFAQsTask, faqsResponse,
                   conversationInsert, replyTimers, dbRequests,
                   conversationMessages, conversations, dbFailed, listenVars,
                   bookingVars>>

\* initializeConversation after the await: the row was inserted and its id
\* is stored, or the insert reported or threw an error, or the answer
\* carries neither an error nor data
ConversationInsertSettles ==
    /\ conversationInsert = "awaiting"
    /\ conversationInsert' = "settled"
    /\ \E outcome \in {"data", "error", "neither"} :
          IF outcome = "data"
          THEN /\ conversations' =
                    Append(conversations,
                           [id |-> ConversationRowId, message_count |-> 0])
               /\ conversationId' = ConversationRowId
               /\ dbFailed' = dbFailed
          ELSE /\ dbFailed' = (dbFailed \/ outcome = "error")
               /\ UNCHANGED <<conversations, conversationId>>
    /\ UNCHANGED <<callVars, supabaseEnabled, isOpen, isMinimized, messages, faqsState,
                   fetchFAQsTask, faqsResponse, replyTimers, dbRequests,
                   conversationMessages, listenVars, bookingVars, voiceVars>>

UserMessages == SelectSeq(messages, LAMBDA m : ~m.isBot)

\* handleSendMessage with the input value typed: the user message is
\* appended and saved, and the reply is scheduled with the state of this
\* render; at most MaxSends messages are typed, whatever was spoken
HandleSendMessage ==
    /\ isOpen
    /\ ~isMinimized
    /\ Len(UserMessages) - voiceChat.replied < MaxSends
    /\ \E inputValue \in ChatInputs :
          /\ trim(inputValue) # <<>>
          /\ \E r1 \in RandomIndex(3), r2 \in RandomIndex(3),
                userMessage \in {trim(inputValue)} :
             \E analysis \in {analyzeAndRespond(userMessage, r1, r2)} :
                LET message == [id |-> Len(messages) + 1,
                                text |-> userMessage,
                                isBot |-> FALSE]
                IN  /\ messages' = Append(messages, message)
                    /\ dbRequests' = dbRequests \o
                          saveMessageToDatabase(conversationId, Len(messages),
                                                message)
                    /\ replyTimers' = Append(replyTimers,
                          [ reply |-> analysis.reply,
                            conversationId |-> conversationId,
                            count |-> Len(messages),
                            delay |-> 300 ])
    /\ UNCHANGED <<callVars, supabaseEnabled, isOpen, isMinimized, faqsState, conversationId,
                   fetchFAQsTask, faqsResponse, conversationInsert,
                   conversationMessages, conversations, dbFailed, listenVars,
                   bookingVars, voiceVars>>

\* the timer at position k can be the next one to fire: a timer fires before
\* every timer that was set later with the same or a longer delay
CanFire(k) ==
    \A j \in 1..(k - 1) : replyTimers[j].delay > replyTimers[k].delay

\* the setTimeout callback of handleSendMessage or handleVoiceReply:
\* addBotMessage with the state of the render that scheduled it
ReplyTimerFires ==
    /\ \E k \in 1..Len(replyTimers) :
          /\ CanFire(k)
          /\ LET timer == replyTimers[k]
                 message == [id |-> Len(messages) + 1,
                             text |-> timer.reply,
                             isBot |-> TRUE]
             IN  /\ messages' = Append(messages, message)
                 /\ dbRequests' = dbRequests \o
                       saveMessageToDatabase(timer.conversationId, timer.count,
                                             message)
          /\ replyTimers' = SubSeq(replyTimers, 1, k - 1)
                               \o SubSeq(replyTimers, k + 1, Len(replyTimers))
    /\ UNCHANGED <<callVars, supabaseEnabled, isOpen, isMinimized, faqsState, conversationId,
                   fetchFAQsTask, faqsResponse, conversationInsert,
                   conversationMessages, conversations, dbFailed, listenVars,
                   bookingVars, voiceVars>>

\* the sequence without its element at position k
Without(requests, k) ==
    SubSeq(requests, 1, k - 1) \o SubSeq(requests, k + 1, Len(requests))

\* VoiceChat before the microphone button is used: the state listening of
\* the mounted instance, the number of startListen calls that reached
\* listenOnce, the calls in progress, oldest first, and the number of
\* onReply calls made
VoiceChatIdle ==
    voiceChat = [listening |-> FALSE, started |-> 0, sessions |-> <<>>,
                 replied |-> 0]

\* the microphone button: startListen up to its first await; its onReply
\* is the handleVoiceReply of the current render of Chatbot
StartListen ==
    /\ isOpen
    /\ ~isMinimized
    /\ ~voiceChat.listening
    /\ voiceChat.started < MaxVoiceReplies
    /\ voiceChat' =
          IF ~recognitionSupported THEN voiceChat
          ELSE [voiceChat EXCEPT
                   !.listening = TRUE,
                   !.started = voiceChat.started + 1,
                   !.sessions = Append(voiceChat.sessions,
                       [ stage |-> "listening",
                         mounted |-> TRUE,
                         conversationId |-> conversationId,
                         count |-> Len(messages),
                         analysis |-> NotCalled ])]
    /\ UNCHANGED <<callVars, chatVars, listenVars, bookingVars>>

\* setListening(false) of the call at position k: it changes the instance
\* that started the call, and nothing once that instance is unmounted
setListeningFalse(k) ==
    IF voiceChat.sessions[k].mounted THEN FALSE ELSE voiceChat.listening

\* startListen after listenOnce, when it reported an error or nothing was
\* heard: onReply is not called
VoiceListenEnds ==
    /\ \E k \in 1..Len(voiceChat.sessions) :
          /\ voiceChat.sessions[k].stage = "listening"
          /\ \E failed \in BOOLEAN :
                failed \/ \E heard \in VoiceTranscripts : trim(heard) = <<>>
          /\ voiceChat' = [voiceChat EXCEPT
                               !.listening = setListeningFalse(k),
                               !.sessions = Without(voiceChat.sessions, k)]
    /\ UNCHANGED <<callVars, chatVars, listenVars, bookingVars>>

\* startListen after listenOnce, when something was heard, up to its await
\* of speak: setListening(false) and analyzeAndRespond(transcript)
VoiceListenHeard ==
    /\ \E k \in 1..Len(voiceChat.sessions), heard \in VoiceTranscripts :
          /\ voiceChat.sessions[k].stage = "listening"
          /\ trim(heard) # <<>>
          /\ \E r1 \in RandomIndex(3), r2 \in RandomIndex(3),
                transcript \in {trim(heard)} :
             \E analysis \in {analyzeAndRespond(transcript, r1, r2)} :
                voiceChat' = [voiceChat EXCEPT
                                 !.listening = setListeningFalse(k),
                                 !.sessions[k].stage = "speaking",
                                 !.sessions[k].analysis = analysis]
    /\ UNCHANGED <<callVars, chatVars, listenVars, bookingVars>>

\* startListen after speak, which always resolves, and the handleVoiceReply
\* it calls as onReply: the user message is appended with
\* analysis.transcript || '' and the reply is scheduled
HandleVoiceReply ==
    /\ \E k \in 1..Len(voiceChat.sessions) :
          /\ voiceChat.sessions[k].stage = "speaking"
          /\ LET session == voiceChat.sessions[k]
                 analysis == session.analysis
                 message == [id |-> Len(messages) + 1,
                             text |-> OrEmpty(Field(analysis, "transcript")),
                             isBot |-> FALSE]
             IN  /\ messages' = Append(messages, message)
                 /\ dbRequests' = dbRequests \o
                       saveMessageToDatabase(session.conversationId,
                                             session.count, message)
                 /\ replyTimers' = Append(replyTimers,
                       [ reply |-> analysis.reply,
                         conversationId |-> session.conversationId,
                         count |-> session.count,
                         delay |-> 200 ])
          /\ voiceChat' = [voiceChat EXCEPT
                               !.sessions = Without(voiceChat.sessions, k),
                               !.replied = voiceChat.replied + 1]
    /\ UNCHANGED <<callVars, supabaseEnabled, isOpen, isMinimized, faqsState,
                   conversationId, fetchFAQsTask, faqsResponse,
                   conversationInsert, conversationMessages, conversations,
                   dbFailed, listenVars, bookingVars>>

\* saveMessageToDatabase after its first await: the row was inserted or the
\* insert reported an error, and the update is sent; or the await threw
MessageInsertSettles ==
    \E k \in 1..Len(dbRequests) :
        /\ dbRequests[k].op = "insert"
        /\ \E outcome \in {"inserted", "error", "thrown"} :
              /\ conversationMessages' =
                    IF outcome = "inserted"
                    THEN Append(conversationMessages,
                                [ conversation_id |-> dbRequests[k].conversation_id,
                                  message_text |-> dbRequests[k].message_text,
                                  is_bot |-> dbRequests[k].is_bot ])
                    ELSE conversationMessages
              /\ dbFailed' = (dbFailed \/ outcome # "inserted")
              /\ dbRequests' =
                    IF outcome = "thrown" THEN Without(dbRequests, k)
                    ELSE [dbRequests EXCEPT ![k] =
                             [ op |-> "update",
                               conversation_id |-> dbRequests[k].conversation_id,
                               message_count |-> dbRequests[k].message_count ]]
        /\ UNCHANGED <<callVars, supabaseEnabled, isOpen, isMinimized, messages, faqsState,
                       conversationId, fetchFAQsTask, faqsResponse,
                       conversationInsert, replyTimers, conversations,
                   listenVars, bookingVars, voiceVars>>

\* saveMessageToDatabase after its second await: message_count was written,
\* or the update reported or threw an error
ConversationUpdateSettles ==
    \E k \in 1..Len(dbRequests) :
        /\ dbRequests[k].op = "update"
        /\ \E ok \in BOOLEAN :
              /\ conversations' =
                    IF ok
                    THEN [r \in 1..Len(conversations) |->
                            IF conversations[r].id = dbRequests[k].conversation_id
                            THEN [conversations[r] EXCEPT
                                     !.message_count = dbRequests[k].message_count]
                            ELSE conversations[r]]
                    ELSE conversations
              /\ dbFailed' = (dbFailed \/ ~ok)
        /\ dbRequests' = Without(dbRequests, k)
        /\ UNCHANGED <<callVars, supabaseEnabled, isOpen, isMinimized, messages, faqsState,
                       conversationId, fetchFAQsTask, faqsResponse,
                       conversationInsert, replyTimers, conversationMessages,
                   listenVars, bookingVars, voiceVars>>

(***************************************************************************)
(* Inputs of the matcher: every text of at most MaxTextLen characters over *)
(* TextChars, every catalog of at most MaxFaqs records of FaqPool.  The    *)
(* records are LocalFAQ values: every property is optional.                *)
(***************************************************************************)
TextChars == {"a", "B", "c", " "}

SeqsUpTo(S, n) == UNION {[1..k -> S] : k \in 0..n}

FaqPool ==
    { [keywords |-> <<" ","B",",",","," ","a","c">>,
       question |-> <<"a"," ","B">>, answer |-> <<"c"," ","a">>],
      [question |-> <<"B"," ","c">>, answer |-> <<"a">>],
      [keywords |-> <<" ",",">>, answer |-> <<"B">>],
      [keywords |-> <<>>, question |-> <<>>, answer |-> <<>>],
      [keywords |-> <<"c">>, question |-> <<"a">>],
      [id |-> <<"6">>],
      [keywords |-> <<"C"," ">>, question |-> <<"B","a">>,
       answer |-> <<"a"," ","B"," ","c">>],
      [keywords |-> <<"x">>, question |-> <<"c"," ","B">>,
       answer |-> <<"c"," "," ","b">>] }

Idle ==
    /\ match = NotCalled
    /\ emotionAnalysis = NotCalled
    /\ result = NotCalled
    /\ wrapped = NotCalled
    /\ simResult = NotCalled
    /\ overlapResult = NotCalled
    /\ levResult = NotCalled

InitMatch ==
    /\ text \in SeqsUpTo(TextChars, MaxTextLen)
    /\ faqs \in SeqsUpTo(FaqPool, MaxFaqs)
    /\ wrapArgs = NotCalled
    /\ operands = NotCalled
    /\ ChatUnmounted
    /\ Idle
    /\ VoiceChatIdle
    /\ NoBookingForms
    /\ NotListening

\* a call of findFaq(text, faqs)
CallFindFaq ==
    /\ match = NotCalled
    /\ match' = findFaq(text, faqs)
    /\ UNCHANGED <<text, faqs, wrapArgs, emotionAnalysis, result, wrapped, measureVars,
                   chatVars, listenVars, bookingVars, voiceVars>>

\* a call of detectEmotion(text)
CallDetectEmotion ==
    /\ emotionAnalysis = NotCalled
    /\ emotionAnalysis' = detectEmotion(text)
    /\ UNCHANGED <<text, faqs, wrapArgs, match, result, wrapped, measureVars,
                   chatVars, listenVars, bookingVars, voiceVars>>

NextMatch == CallFindFaq \/ CallDetectEmotion

SpecMatch == InitMatch /\ [][NextMatch]_vars

(***************************************************************************)
(* Inputs of the classifier: the texts made of at most MaxFragments of the *)
(* fragments below, and the utterance of the documented scenario.          *)
(***************************************************************************)
EmotionFragments ==
    { <<"T","h","a","n","k","s"," ","s","o"," ","m","u","c","h">>,
      <<"l","o","v","e"," ","i","t">>,
      <<"!">>,
      <<"?">>,
      <<"U","g","h">>,
      <<"h","o","w">>,
      <<"u","n","s","u","r","e">>,
      <<"c","a","n","t"," ","w","a","i","t">>,
      <<"U+D83C","U+DF89">>,
      <<" ">>,
      <<"S","A","D">>,
      <<"f","e","a","r">>,
      <<"x">> }

FrustratingScenario ==
    <<"T","h","i","s"," ","i","s"," ","s","o"," ","f","r","u","s","t","r","a",
      "t","i","n","g",","," ","n","o","t","h","i","n","g"," ","w","o","r","k",
      "s","!">>

EmotionTexts ==
    {join(fs, <<>>) : fs \in SeqsUpTo(EmotionFragments, MaxFragments)}
        \cup {FrustratingScenario}

InitEmotion ==
    /\ text \in EmotionTexts
    /\ faqs = <<>>
    /\ wrapArgs = NotCalled
    /\ operands = NotCalled
    /\ ChatUnmounted
    /\ Idle
    /\ VoiceChatIdle
    /\ NoBookingForms
    /\ NotListening

NextEmotion == CallDetectEmotion

SpecEmotion == InitEmotion /\ [][NextEmotion]_vars

(***************************************************************************)
(* Inputs of the empathetic wrap: a few answers, every emotion, every      *)
(* confidence k / ConfidenceGrid.                                          *)
(***************************************************************************)
WrapAnswers ==
    { <<>>, <<"I","n"," ","2","4","h",".">>, <<"a","\n","\n","b">> }

InitWrap ==
    /\ text = <<>>
    /\ faqs = <<>>
    /\ wrapArgs \in [baseResponse : WrapAnswers,
                     emotion : Range(ScoreOrder),
                     confidence : {Double(k, ConfidenceGrid) : k \in 0..ConfidenceGrid}]
    /\ operands = NotCalled
    /\ ChatUnmounted
    /\ Idle
    /\ VoiceChatIdle
    /\ NoBookingForms
    /\ NotListening

\* a call of generateEmpatheticResponse with the two random draws
CallGenerateEmpatheticResponse ==
    /\ wrapped = NotCalled
    /\ \E r1 \in RandomIndex(Len(empatheticPrefixes[wrapArgs.emotion])),
          r2 \in RandomIndex(Len(supportiveSuffixes[wrapArgs.emotion])) :
            wrapped' = [reply |-> generateEmpatheticResponse(
                                      wrapArgs.baseResponse, wrapArgs.emotion,
                                      wrapArgs.confidence, r1, r2)]
    /\ UNCHANGED <<text, faqs, wrapArgs, match, emotionAnalysis, result, measureVars,
                   chatVars, listenVars, bookingVars, voiceVars>>

NextWrap == CallGenerateEmpatheticResponse

SpecWrap == InitWrap /\ [][NextWrap]_vars

(***************************************************************************)
(* Inputs of the composer: texts made of at most MaxFragments fragments,   *)
(* catalogs of at most MaxFaqs records of ComposePool.  The records are    *)
(* FAQ values: question, answer and keywords are present, emotion_answers  *)
(* is optional.                                                            *)
(***************************************************************************)
ComposeFragments ==
    { <<"R","e","f","u","n","d"," ">>,
      <<"h","o","w">>,
      <<"?">>,
      <<"!">>,
      <<"s","a","d">>,
      <<"k","i","d">>,
      <<"u","g","h">>,
      <<"c","a","n","t"," ","w","a","i","t">> }

ComposeTexts ==
    {join(fs, <<>>) : fs \in SeqsUpTo(ComposeFragments, MaxFragments)}

ComposePool ==
    { [ question |-> <<"H","o","w"," ","t","o"," ","r","e","f","u","n","d">>,
        answer |-> <<"I","n"," ","2","4","h",".">>,
        keywords |-> <<"r","e","f","u","n","d",","," ","m","o","n","e","y"," ",
                      "b","a","c","k">>,
        emotion_answers |->
            [ confused |-> <<"E","a","s","y",":"," ","i","n"," ","2","4","h",
                            ".">>,
              excited |-> <<>> ] ],
      [ question |-> <<"k","i","d","s">>,
        answer |-> <<"y","e","s">>,
        keywords |-> <<>> ],
      [ question |-> <<"S","e","a","t","?">>,
        answer |-> <<"h","o","w"," ","s","a","d">>,
        keywords |-> <<"s","e","a","t">>,
        emotion_answers |-> [ sad |-> <<"S","o","r","r","y","!">> ] ] }

InitCompose ==
    /\ text \in ComposeTexts
    /\ faqs \in SeqsUpTo(ComposePool, MaxFaqs)
    /\ wrapArgs = NotCalled
    /\ operands = NotCalled
    /\ ChatUnmounted
    /\ Idle
    /\ VoiceChatIdle
    /\ NoBookingForms
    /\ NotListening

\* a call of the composer over the catalog, with the two random draws
CallAnalyze ==
    /\ result = NotCalled
    /\ \E r1 \in RandomIndex(3), r2 \in RandomIndex(3) :
            result' = analyzeOver(text, faqs, r1, r2)
    /\ UNCHANGED <<text, faqs, wrapArgs, match, emotionAnalysis, wrapped, measureVars,
                   chatVars, listenVars, bookingVars, voiceVars>>

NextCompose == CallAnalyze

SpecCompose == InitCompose /\ [][NextCompose]_vars

(***************************************************************************)
(* Inputs of similarity and tokenOverlap: every pair of strings of at most *)
(* MaxTextLen characters over MeasureChars.                                *)
(***************************************************************************)
MeasureChars == {"a", "b", " "}

InitMeasure ==
    /\ text = <<>>
    /\ faqs = <<>>
    /\ wrapArgs = NotCalled
    /\ operands \in [a : SeqsUpTo(MeasureChars, MaxTextLen),
                     b : SeqsUpTo(MeasureChars, MaxTextLen)]
    /\ ChatUnmounted
    /\ Idle
    /\ VoiceChatIdle
    /\ NoBookingForms
    /\ NotListening

\* a call of similarity(a, b)
CallSimilarity ==
    /\ simResult = NotCalled
    /\ simResult' = [value |-> similarity(operands.a, operands.b)]
    /\ UNCHANGED <<text, faqs, wrapArgs, match, emotionAnalysis, result,
                   wrapped, operands, overlapResult, levResult,
                   chatVars, listenVars, bookingVars, voiceVars>>

\* a call of tokenOverlap(a, b)
CallTokenOverlap ==
    /\ overlapResult = NotCalled
    /\ overlapResult' = [value |-> tokenOverlap(operands.a, operands.b)]
    /\ UNCHANGED <<text, faqs, wrapArgs, match, emotionAnalysis, result,
                   wrapped, operands, simResult, levResult,
                   chatVars, listenVars, bookingVars, voiceVars>>

\* a call of levenshtein(a, b)
CallLevenshtein ==
    /\ levResult = NotCalled
    /\ levResult' = [value |-> levenshtein(operands.a, operands.b)]
    /\ UNCHANGED <<text, faqs, wrapArgs, match, emotionAnalysis, result,
                   wrapped, operands, simResult, overlapResult,
                   chatVars, listenVars, bookingVars, voiceVars>>

NextMeasure == CallSimilarity \/ CallTokenOverlap \/ CallLevenshtein

SpecMeasure == InitMeasure /\ [][NextMeasure]_vars

(***************************************************************************)
(* The documented scenarios: the scenario utterances over the built-in     *)
(* default catalog and over catalogs of at most MaxFaqs records of         *)
(* ScenarioPool.                                                           *)
(***************************************************************************)
Gibberish ==
    <<"a","s","d","k","j","a","s","d","k","j"," ","r","a","n","d","o","m"," ",
      "g","i","b","b","e","r","i","s","h">>

TicketPrices ==
    <<"W","h","a","t"," ","a","r","e"," ","t","h","e"," ","t","i","c","k","e",
      "t"," ","p","r","i","c","e","s","?">>

\* the questions of the built-in default catalog
DefaultQuestions == {sampleFaqs[k].question : k \in 1..Len(sampleFaqs)}

ScenarioTexts == {<<>>, Gibberish, TicketPrices} \cup DefaultQuestions

ScenarioPool ==
    ComposePool \cup
    { [ question |-> <<"R","a","n","d","o","m"," ","f","a","c","t","s">>,
        answer |-> <<"N","o","n","e",".">>,
        keywords |-> <<"r","a","n","d","o","m",","," ","t","r","i","v","i","a">> ] }

InitScenario ==
    /\ text \in ScenarioTexts
    /\ faqs \in {sampleFaqs} \cup SeqsUpTo(ScenarioPool, MaxFaqs)
    /\ wrapArgs = NotCalled
    /\ operands = NotCalled
    /\ ChatUnmounted
    /\ Idle
    /\ VoiceChatIdle
    /\ NoBookingForms
    /\ NotListening

NextScenario == CallFindFaq \/ CallAnalyze

SpecScenario == InitScenario /\ [][NextScenario]_vars

(***************************************************************************)
(* The chat component: Supabase configured or not, every answer of the     *)
(* faqs query, at most MaxSends messages typed out of ChatInputs.          *)
(***************************************************************************)
InitChat ==
    /\ text = <<>>
    /\ faqs = <<>>
    /\ wrapArgs = NotCalled
    /\ operands = NotCalled
    /\ Idle
    /\ VoiceChatIdle
    /\ NoBookingForms
    /\ NotListening
    /\ supabaseEnabled \in BOOLEAN
    /\ isOpen = FALSE
    /\ isMinimized = FALSE
    /\ messages = <<>>
    /\ faqsState = <<>>
    /\ conversationId = Null
    /\ fetchFAQsTask = "notStarted"
    /\ faqsResponse = NotCalled
    /\ conversationInsert = "none"
    /\ replyTimers = <<>>
    /\ dbRequests = <<>>
    /\ conversationMessages = <<>>
    /\ conversations = <<>>
    /\ dbFailed = FALSE

NextChat ==
    \/ MountEffect
    \/ FetchFAQsSettles
    \/ OpenChat
    \/ CloseChat
    \/ ToggleMinimized
    \/ ConversationInsertSettles
    \/ HandleSendMessage
    \/ ReplyTimerFires
    \/ MessageInsertSettles
    \/ ConversationUpdateSettles

SpecChat == InitChat /\ [][NextChat]_vars

(***************************************************************************)
(* listenOnce called once, with or without a recognizer, recog.start()     *)
(* throwing or not, and up to MaxEvents events of the recognizer.          *)
(***************************************************************************)
InitListen ==
    /\ text = <<>>
    /\ faqs = <<>>
    /\ wrapArgs = NotCalled
    /\ operands = NotCalled
    /\ ChatUnmounted
    /\ match = NotCalled
    /\ emotionAnalysis = NotCalled
    /\ result = NotCalled
    /\ wrapped = NotCalled
    /\ simResult = NotCalled
    /\ overlapResult = NotCalled
    /\ levResult = NotCalled
    /\ recognitionSupported \in BOOLEAN
    /\ promise = NotCalled
    /\ finished = FALSE
    /\ listeners = {}
    /\ recogStarted = FALSE
    /\ listenTimer = "none"
    /\ dispatched = <<>>
    /\ NoBookingForms
    /\ VoiceChatIdle

NextListen == ListenOnce \/ RecognizerDispatches \/ ListenTimeout

SpecListen == InitListen /\ [][NextListen]_vars

(***************************************************************************)
(* Up to MaxForms instances of BookingForm on one showtime that starts     *)
(* with up to MaxSeats seats, all of them available, and up to MaxBookings *)
(* rows of bookings.                                                       *)
(***************************************************************************)
InitBooking ==
    /\ text = <<>>
    /\ faqs = <<>>
    /\ wrapArgs = NotCalled
    /\ operands = NotCalled
    /\ ChatUnmounted
    /\ Idle
    /\ VoiceChatIdle
    /\ NotListening
    /\ \E n \in 1..MaxSeats :
          showtimeRow = [id |-> ShowtimeId, available_seats |-> n,
                         total_seats |-> n]
    /\ bookings = <<>>
    /\ bookingForms = [f \in Forms |-> FormClosed]

NextBooking ==
    \/ FetchShowtimes
    \/ OpenBookingForm
    \/ CloseBookingForm
    \/ SetSeatsBooked
    \/ HandleSubmit
    \/ BookingInsertSettles
    \/ ShowtimeUpdateSettles

SpecBooking == InitBooking /\ [][NextBooking]_vars

(***************************************************************************)
(* The chat without Supabase, with typed messages and the microphone, in a *)
(* browser with or without speech recognition: at most MaxSends typed      *)
(* messages and MaxVoiceReplies voice sessions.                            *)
(***************************************************************************)
InitVoice ==
    /\ text = <<>>
    /\ faqs = <<>>
    /\ wrapArgs = NotCalled
    /\ operands = NotCalled
    /\ ChatUnmounted
    /\ Idle
    /\ recognitionSupported \in BOOLEAN
    /\ promise = NotCalled
    /\ finished = FALSE
    /\ listeners = {}
    /\ recogStarted = FALSE
    /\ listenTimer = "none"
    /\ dispatched = <<>>
    /\ NoBookingForms
    /\ VoiceChatIdle

NextVoice ==
    \/ MountEffect
    \/ OpenChat
    \/ CloseChat
    \/ ToggleMinimized
    \/ HandleSendMessage
    \/ StartListen
    \/ VoiceListenEnds
    \/ VoiceListenHeard
    \/ HandleVoiceReply
    \/ ReplyTimerFires

SpecVoice == InitVoice /\ [][NextVoice]_vars

(***************************************************************************)
(* Properties of the matcher, checked under SpecMatch.                     *)
(***************************************************************************)
\* the text of an FAQ property, the empty string when the property is missing
TextOf(faq, name) == IF name \in DOMAIN faq THEN faq[name] ELSE <<>>

\* the keywords field split on commas, each token trimmed and lowercased
TokensOf(faq) ==
    LET parts == split(TextOf(faq, "keywords"), ",")
    IN  {toLowerCase(trim(parts[k])) : k \in 1..Len(parts)}

KeywordHit(faq) ==
    \E tok \in TokensOf(faq) : tok # <<>> /\ includes(toLowerCase(text), tok)

\* the record has a question text and, lowercased, it is a substring
QuestionIncluded(faq) ==
    /\ "question" \in DOMAIN faq
    /\ includes(toLowerCase(text), toLowerCase(faq.question))

\* the catalog positions that satisfy the exact-phase condition as C1 words it
ExactAsClaimed == {i \in 1..Len(faqs) : KeywordHit(faqs[i]) \/ QuestionIncluded(faqs[i])}

\* the same with a question text that is not empty
ExactHits ==
    {i \in 1..Len(faqs) :
        \/ KeywordHit(faqs[i])
        \/ TextOf(faqs[i], "question") # <<>> /\ QuestionIncluded(faqs[i])}

First(S) == CHOOSE i \in S : \A j \in S : i <= j

\* C1 as stated: the first FAQ in catalog order with a non-empty keyword in
\* the lowercased utterance, or whose lowercased question is a substring of
\* it, is returned with score 1.0
C1_AsStated ==
    (match # NotCalled /\ ExactAsClaimed # {})
        => match = [faq |-> faqs[First(ExactAsClaimed)], score |-> One]

\* C1 amended: the first FAQ in catalog order with a non-empty keyword in the
\* lowercased utterance, or whose lowercased question is NOT EMPTY and a
\* substring of it, is returned with score exactly 1.0; no later FAQ is
\* returned when an earlier one satisfies the condition
C1_ExactFirst ==
    (match # NotCalled /\ ExactHits # {})
        => match = [faq |-> faqs[First(ExactHits)], score |-> One]

\* two different FAQs satisfy the condition and the earlier one came back
C1_Witness ==
    /\ match # NotCalled
    /\ Len(faqs) = 2
    /\ ExactHits = {1, 2}
    /\ faqs[1] # faqs[2]
    /\ ~QuestionIncluded(faqs[1])
    /\ match = [faq |-> faqs[1], score |-> One]

\* max(0.6*simQ + 0.4*overlapQ, 0.5*simA + 0.5*overlapA) of catalog entry i
ClaimedScore(i) ==
    LET u == toLowerCase(text)
        q == toLowerCase(TextOf(faqs[i], "question"))
        a == toLowerCase(TextOf(faqs[i], "answer"))
        viaQ == DoubleAdd(DoubleMul(Double(6, 10), similarity(u, q)),
                        DoubleMul(Double(4, 10), tokenOverlap(u, q)))
        viaA == DoubleAdd(DoubleMul(Double(5, 10), similarity(u, a)),
                        DoubleMul(Double(5, 10), tokenOverlap(u, a)))
    IN  IF DoubleLess(viaQ, viaA) THEN viaA ELSE viaQ

\* the earliest catalog position that has the highest score
BestPosition ==
    CHOOSE i \in 1..Len(faqs) :
        /\ \A j \in 1..Len(faqs) : DoubleLeq(ClaimedScore(j), ClaimedScore(i))
        /\ \A j \in 1..(i - 1) : DoubleLess(ClaimedScore(j), ClaimedScore(i))

FuzzyPhase == match # NotCalled /\ faqs # <<>> /\ ExactHits = {}

\* C3 as stated: when no FAQ satisfies the exact-phase condition, the FAQ with
\* the highest score, the earliest among equals, is returned with that score
C3_AsStated ==
    FuzzyPhase
        => match = [faq |-> faqs[BestPosition], score |-> ClaimedScore(BestPosition)]

\* C3 amended: when no FAQ satisfies the exact-phase condition and the
\* highest score is greater than 0, the FAQ with the highest score, the
\* earliest among equals, is returned with that score; when every FAQ scores
\* 0, no FAQ is returned and the score is 0
C3_FuzzyBest ==
    FuzzyPhase
        => IF DoubleLess(Zero, ClaimedScore(BestPosition))
           THEN match = [faq |-> faqs[BestPosition],
                         score |-> ClaimedScore(BestPosition)]
           ELSE match = [score |-> Zero]

\* two different FAQs share the highest score and the earlier one came back
C3_Witness ==
    /\ FuzzyPhase
    /\ Len(faqs) = 2
    /\ faqs[1] # faqs[2]
    /\ ClaimedScore(1) = ClaimedScore(2)
    /\ DoubleLess(Zero, ClaimedScore(1))
    /\ match = [faq |-> faqs[1], score |-> ClaimedScore(1)]

\* the record with its missing question, answer and keywords set to ''
Filled(faq) ==
    [n \in DOMAIN faq \cup {"question", "answer", "keywords"} |-> TextOf(faq, n)]

HasMissingField(faq) == {"question", "answer", "keywords"} \ DOMAIN faq # {}

\* C10: findFaq and detectEmotion never raise; over the empty catalog findFaq
\* returns no FAQ and score 0; a record with a missing keywords, question or
\* answer property gives the result the same record gives with '' there
C10_Total ==
    /\ match # NotCalled =>
          /\ match # Raised
          /\ faqs = <<>> => match = [score |-> Zero]
          /\ LET filled == findFaq(text, [i \in 1..Len(faqs) |-> Filled(faqs[i])])
             IN  /\ filled # Raised
                 /\ match.score = filled.score
                 /\ ("faq" \in DOMAIN match) = ("faq" \in DOMAIN filled)
                 /\ "faq" \in DOMAIN match => Filled(match.faq) = filled.faq
    /\ emotionAnalysis # NotCalled =>
          /\ emotionAnalysis # Raised
          /\ emotionAnalysis.emotion \in Range(ScoreOrder)

\* both calls returned, over a catalog whose returned record lacks a property
C10_Witness ==
    /\ match # NotCalled
    /\ emotionAnalysis # NotCalled
    /\ "faq" \in DOMAIN match
    /\ HasMissingField(match.faq)
    /\ \E i \in 1..Len(faqs) : {"question", "answer", "keywords"} \cap DOMAIN faqs[i] = {}

(***************************************************************************)
(* Properties of the classifier, checked under SpecEmotion.                *)
(***************************************************************************)
Normalized == trim(toLowerCase(text))

\* the lexicon entries of list that occur in the normalized text, in order
Occurring(list) == SelectSeq(list, LAMBDA entry : includes(Normalized, entry))

HasMark(mark) == \E i \in 1..Len(Normalized) : Normalized[i] = mark

\* 2 per keyword, 3 per phrase, 1 for '?' on confused, 0.5 for '!' on
\* excited and angry
ClaimedEmotionScore(e) ==
    LET lexicon == 2 * Len(Occurring(emotionPatterns[e].keywords))
                     + 3 * Len(Occurring(emotionPatterns[e].phrases))
        question == IF e = "confused" /\ HasMark("?") THEN 2 ELSE 0
        exclaim == IF e \in {"excited", "angry"} /\ HasMark("!") THEN 1 ELSE 0
    IN  Double(2 * lexicon + question + exclaim, 2)

\* the first emotion, in the order happy .. excited, with the highest score
Winner ==
    PatternOrder[CHOOSE k \in 1..7 :
        /\ \A j \in 1..7 : DoubleLeq(ClaimedEmotionScore(PatternOrder[j]),
                                   ClaimedEmotionScore(PatternOrder[k]))
        /\ \A j \in 1..(k - 1) : DoubleLess(ClaimedEmotionScore(PatternOrder[j]),
                                         ClaimedEmotionScore(PatternOrder[k]))]

WinnerResult ==
    [emotion |-> Winner,
     confidence |-> DoubleMin(DoubleDivInt(ClaimedEmotionScore(Winner), 10), One),
     keywords |-> Occurring(emotionPatterns[Winner].keywords)
                     \o Occurring(emotionPatterns[Winner].phrases)]

\* C4 as stated: detectEmotion returns the highest-scoring of the seven
\* emotions, ties to the earlier one, with confidence min(score/10, 1.0) and
\* that emotion's matched keywords followed by its matched phrases
C4_AsStated == emotionAnalysis # NotCalled => emotionAnalysis = WinnerResult

\* C4 amended: whenever the highest of the seven scores is greater than 0,
\* detectEmotion returns the highest-scoring emotion, ties to the earlier one,
\* with confidence min(score/10, 1.0) and that emotion's matched keywords
\* followed by its matched phrases; when all seven scores are 0 it returns
\* neutral with confidence 1.0 and no keywords
C4_HighestScore ==
    emotionAnalysis # NotCalled =>
        IF DoubleLess(Zero, ClaimedEmotionScore(Winner))
        THEN emotionAnalysis = WinnerResult
        ELSE emotionAnalysis =
                [emotion |-> "neutral", confidence |-> One, keywords |-> <<>>]

\* two emotions share the highest score, which a keyword and a phrase of the
\* winner contributed to, and the earlier emotion came back
C4_Witness ==
    /\ emotionAnalysis # NotCalled
    /\ \E e \in Range(PatternOrder) \ {Winner} :
            ClaimedEmotionScore(e) = ClaimedEmotionScore(Winner)
    /\ Occurring(emotionPatterns[Winner].keywords) # <<>>
    /\ Occurring(emotionPatterns[Winner].phrases) # <<>>
    /\ emotionAnalysis.emotion = Winner
    /\ emotionAnalysis.keywords # <<>>

\* no lexicon keyword, lexicon phrase or punctuation rule added to any score
NothingContributed ==
    /\ \A e \in Range(PatternOrder) :
          /\ Occurring(emotionPatterns[e].keywords) = <<>>
          /\ Occurring(emotionPatterns[e].phrases) = <<>>
    /\ ~HasMark("?")
    /\ ~HasMark("!")

\* C5: the confidence lies in [0,1]; neutral is returned exactly when no
\* keyword, phrase or punctuation rule added to any score; a neutral result
\* has confidence 1.0 and no matched keywords
C5_NeutralIff ==
    emotionAnalysis # NotCalled =>
        /\ DoubleLeq(Zero, emotionAnalysis.confidence)
        /\ DoubleLeq(emotionAnalysis.confidence, One)
        /\ (emotionAnalysis.emotion = "neutral") = NothingContributed
        /\ emotionAnalysis.emotion = "neutral" =>
              /\ emotionAnalysis.confidence = One
              /\ emotionAnalysis.keywords = <<>>

\* a text that is not empty came back neutral
C5_Witness ==
    /\ emotionAnalysis # NotCalled
    /\ Normalized # <<>>
    /\ NothingContributed
    /\ emotionAnalysis.emotion = "neutral"

\* C6: for "This is so frustrating, nothing works!" detectEmotion returns
\* frustrated with a confidence greater than 0
C6_FrustratingScenario ==
    (emotionAnalysis # NotCalled /\ text = FrustratingScenario) =>
        /\ emotionAnalysis.emotion = "frustrated"
        /\ DoubleLess(Zero, emotionAnalysis.confidence)

(***************************************************************************)
(* Property of the empathetic wrap, checked under SpecWrap.                *)
(***************************************************************************)
\* C8: the answer comes back unchanged when confidence < 0.3 or the emotion
\* is neutral; otherwise the result is "<acknowledgment> <transition>\n\n
\* <answer>\n\n<closing>" with the acknowledgment and the transition of one
\* entry of the emotion's three prefixes and one of its three closings
C8_WrapShape ==
    wrapped # NotCalled =>
        LET e == wrapArgs.emotion
            answer == wrapArgs.baseResponse
        IN  IF DoubleLess(wrapArgs.confidence, Double(3, 10)) \/ e = "neutral"
            THEN wrapped.reply = answer
            ELSE /\ Len(empatheticPrefixes[e]) = 3
                 /\ Len(supportiveSuffixes[e]) = 3
                 /\ \E i \in 1..3, j \in 1..3 :
                        wrapped.reply =
                            empatheticPrefixes[e][i].acknowledgment \o <<" ">>
                                \o empatheticPrefixes[e][i].transition
                                \o <<"\n", "\n">> \o answer \o <<"\n", "\n">>
                                \o supportiveSuffixes[e][j]

\* a wrap at confidence exactly 0.3 around an answer that is not empty
C8_Witness ==
    /\ wrapped # NotCalled
    /\ wrapArgs.confidence = Double(3, 10)
    /\ wrapArgs.emotion = "angry"
    /\ wrapArgs.baseResponse # <<>>
    /\ wrapped.reply # wrapArgs.baseResponse

(***************************************************************************)
(* Properties of the composer, checked under SpecCompose.                  *)
(***************************************************************************)
Found == findFaq(text, faqs)

\* findFaq returned an FAQ with score 1.0 or with a score >= 0.35
Usable ==
    /\ "faq" \in DOMAIN Found
    /\ Found.score = One \/ DoubleLeq(Double(35, 100), Found.score)

\* the emotion_answers entry of the matched FAQ for the detected emotion
HasOverride ==
    /\ "emotion_answers" \in DOMAIN Found.faq
    /\ result.emotion \in DOMAIN Found.faq.emotion_answers

Override == Found.faq.emotion_answers[result.emotion]

StartsWith(s, prefix) == Len(s) >= Len(prefix) /\ SubSeq(s, 1, Len(prefix)) = prefix
EndsWith(s, suffix) ==
    Len(s) >= Len(suffix) /\ SubSeq(s, Len(s) - Len(suffix) + 1, Len(s)) = suffix

\* "<intro> <block>\n\n<outro>" for the detected emotion: the block
TopicsBlock ==
    SubSeq(result.reply, Len(empatheticIntros[result.emotion]) + 2,
           Len(result.reply) - Len(supportiveOutros[result.emotion]) - 2)

NonEmptyLines(s) == SelectSeq(split(s, "\n"), LAMBDA line : line # <<>>)

\* the reply is the no-answer template over the searched catalog
IsNoAnswerReply ==
    /\ StartsWith(result.reply, empatheticIntros[result.emotion] \o <<" ">>)
    /\ EndsWith(result.reply, <<"\n", "\n">> \o supportiveOutros[result.emotion])
    /\ NonEmptyLines(TopicsBlock) =
          <<TopicsHeader>> \o [k \in 1..Len(faqs) |-> <<"U+2022", " ">> \o faqs[k].question]

\* C2: the reply answers from the matched FAQ exactly when findFaq returned
\* an FAQ with score 1.0 or a score >= 0.35; otherwise baseAnswer is null
\* and the reply is the no-answer template
C2_UsableIff ==
    result # NotCalled =>
        IF Usable
        THEN /\ result.baseAnswer =
                    (IF HasOverride THEN Override ELSE Found.faq.answer)
             /\ includes(result.reply, result.baseAnswer)
             /\ ~IsNoAnswerReply
        ELSE /\ result.baseAnswer = Null
             /\ IsNoAnswerReply

\* a fuzzy match below 1.0 and at least 0.35 was answered from its FAQ
C2_Witness ==
    /\ result # NotCalled
    /\ Usable
    /\ Found.score # One
    /\ result.baseAnswer = Found.faq.answer
    /\ result.reply # result.baseAnswer

\* C9: without a usable match baseAnswer is null and the reply is the intro
\* of the detected emotion, a space, the topics block (the header line, then
\* one bullet line per catalog question in catalog order), a blank line and
\* the outro of the detected emotion, whatever the confidence
C9_NoAnswerReply ==
    (result # NotCalled /\ ~Usable) =>
        /\ result.baseAnswer = Null
        /\ result.emotion = detectEmotion(text).emotion
        /\ IsNoAnswerReply

\* no usable match over two FAQs, for an emotion detected below 0.3
C9_Witness ==
    /\ result # NotCalled
    /\ ~Usable
    /\ Len(faqs) = 2
    /\ faqs[1] # faqs[2]
    /\ result.emotion # "neutral"
    /\ DoubleLess(result.confidence, Double(3, 10))
    /\ IsNoAnswerReply

\* C11: for the empty utterance and any catalog, findFaq returns no FAQ and
\* score 0 (neither phase finds one), and the composer gives the no-answer
\* reply with baseAnswer null
C11_EmptyUtterance ==
    (result # NotCalled /\ text = <<>>) =>
        /\ Found = [score |-> Zero]
        /\ result.baseAnswer = Null
        /\ IsNoAnswerReply

\* the empty utterance over two FAQs, one of them with an empty keywords text
C11_Witness ==
    /\ result # NotCalled
    /\ text = <<>>
    /\ Len(faqs) = 2
    /\ faqs[1] # faqs[2]
    /\ \E i \in 1..2 : faqs[i].keywords = <<>>
    /\ result.emotion = "neutral"
    /\ IsNoAnswerReply

(***************************************************************************)
(* Properties of similarity and tokenOverlap, checked under SpecMeasure.   *)
(***************************************************************************)
\* C12: similarity(a, b) = similarity(b, a); similarity(a, a) = 1.0 for a
\* non-empty a; similarity(a, b) = 0 whenever a or b is empty
C12_Similarity ==
    simResult # NotCalled =>
        /\ simResult.value = similarity(operands.b, operands.a)
        /\ (operands.a = operands.b /\ operands.a # <<>>) => simResult.value = One
        /\ (operands.a = <<>> \/ operands.b = <<>>) => simResult.value = Zero

\* two different strings of different lengths, neither empty, that share a
\* part: the similarity lies strictly between 0 and 1
C12_Witness ==
    /\ simResult # NotCalled
    /\ Len(operands.a) < Len(operands.b)
    /\ operands.a # <<>>
    /\ DoubleLess(Zero, simResult.value)
    /\ DoubleLess(simResult.value, One)

\* the tokens that occur on both sides, each counted once
SharedTokens == Range(splitWords(operands.a)) \cap Range(splitWords(operands.b))

\* C13: tokenOverlap(a, b) = |sharedTokens| / max(|tokensA|, |tokensB|), with
\* sharedTokens the set of tokens that occur on both sides, and 0 when either
\* side has no token
C13_TokenOverlap ==
    overlapResult # NotCalled =>
        LET tokensA == splitWords(operands.a)
            tokensB == splitWords(operands.b)
        IN  overlapResult.value =
                IF tokensA = <<>> \/ tokensB = <<>> THEN Zero
                ELSE Double(Cardinality(SharedTokens),
                          Max2(Len(tokensA), Len(tokensB)))

(***************************************************************************)
(* The range of the scores, checked under SpecMatch.                       *)
(***************************************************************************)
InUnitInterval(x) == DoubleLeq(Zero, x) /\ DoubleLeq(x, One)

\* C14: for every utterance and catalog the score findFaq returns lies in
\* [0,1], and so do the similarity and the tokenOverlap of the lowercased
\* utterance with the lowercased question and answer of every FAQ
C14_ScoreRange ==
    match # NotCalled =>
        /\ InUnitInterval(match.score)
        /\ \A i \in 1..Len(faqs) : \A name \in {"question", "answer"} :
              LET u == toLowerCase(text)
                  other == toLowerCase(TextOf(faqs[i], name))
              IN  /\ InUnitInterval(similarity(u, other))
                  /\ InUnitInterval(tokenOverlap(u, other))

\* a fuzzy match whose score lies strictly between 0 and 1, for an utterance
\* in which a token is repeated
C14_Witness ==
    /\ match # NotCalled
    /\ ExactHits = {}
    /\ "faq" \in DOMAIN match
    /\ DoubleLess(Zero, match.score)
    /\ DoubleLess(match.score, One)
    /\ LET tokens == splitWords(toLowerCase(text))
       IN  Len(tokens) = 2 /\ tokens[1] = tokens[2]

(***************************************************************************)
(* The documented scenarios, checked under SpecScenario.                   *)
(***************************************************************************)
\* the exact phase matches nothing, the fuzzy best score is below 0.35 and
\* the reply is the no-answer template listing all catalog questions
GibberishUnanswered ==
    /\ ExactHits = {}
    /\ DoubleLess(Found.score, Double(35, 100))
    /\ result.baseAnswer = Null
    /\ IsNoAnswerReply

\* C16 as stated: for "asdkjasdkj random gibberish" and any non-empty
\* catalog, the exact phase matches nothing, the fuzzy best score is below
\* 0.35 and the composer returns the no-answer template with all questions
C16_AsStated ==
    (result # NotCalled /\ text = Gibberish /\ faqs # <<>>) => GibberishUnanswered

\* C16 amended: for "asdkjasdkj random gibberish" and the built-in default
\* catalog, the exact phase matches nothing, the fuzzy best score is below
\* 0.35 and the composer returns the no-answer template with all questions
C16_GibberishOverDefaults ==
    (result # NotCalled /\ text = Gibberish /\ faqs = sampleFaqs) =>
        GibberishUnanswered

\* the gibberish utterance over the default catalog: some FAQ has a fuzzy
\* score above 0, and the seven questions are listed
C16_Witness ==
    /\ result # NotCalled
    /\ text = Gibberish
    /\ faqs = sampleFaqs
    /\ "faq" \in DOMAIN Found
    /\ DoubleLess(Zero, Found.score)
    /\ Len(NonEmptyLines(TopicsBlock)) = 8

\* C17: "What are the ticket prices?" over the default catalog matches the
\* ticket-price FAQ (keywords beginning "ticket price,price,payment") in the
\* exact phase with score 1.0, no earlier entry satisfies the exact-phase
\* condition, and the reply contains that FAQ's answer text
C17_TicketPrices ==
    (result # NotCalled /\ text = TicketPrices /\ faqs = sampleFaqs) =>
        /\ \E r1 \in RandomIndex(3), r2 \in RandomIndex(3) :
              result = analyzeAndRespond(TicketPrices, r1, r2)
        /\ ExactHits # {}
        /\ Found = [faq |-> sampleFaqs[First(ExactHits)], score |-> One]
        /\ StartsWith(Found.faq.keywords,
                      <<"t","i","c","k","e","t"," ","p","r","i","c","e",",",
                        "p","r","i","c","e",",","p","a","y","m","e","n","t">>)
        /\ \A i \in 1..(First(ExactHits) - 1) :
              ~KeywordHit(sampleFaqs[i]) /\ ~QuestionIncluded(sampleFaqs[i])
        /\ result.baseAnswer = Found.faq.answer
        /\ includes(result.reply, Found.faq.answer)

\* the ticket-price utterance answered from the fourth default FAQ, its
\* answer inside the wrap for the detected emotion
C17_Witness ==
    /\ result # NotCalled
    /\ text = TicketPrices
    /\ faqs = sampleFaqs
    /\ First(ExactHits) = 4
    /\ result.emotion = "confused"
    /\ result.reply # result.baseAnswer
    /\ includes(result.reply, sampleFaqs[4].answer)

\* the faqs query answered without an error
FetchSucceeded ==
    /\ supabaseEnabled
    /\ fetchFAQsTask = "finished"
    /\ ~faqsResponse.thrown
    /\ faqsResponse.error = Null

\* C18: the FAQ catalog held by the chat component is never null or
\* undefined, and once fetchFAQs has finished it is the built-in default
\* list when Supabase is not configured or the fetch reported or threw an
\* error, and the fetched rows (the empty list when the response carries no
\* rows) when the fetch succeeded
C18_FaqCatalog ==
    /\ faqsState # NoData
    /\ fetchFAQsTask = "finished" =>
          faqsState = IF ~FetchSucceeded THEN sampleFaqs
                      ELSE IF faqsResponse.data = NoData THEN <<>>
                      ELSE faqsResponse.data

\* the query answered with data: null and no error, and the component holds
\* the empty list
C18_Witness ==
    /\ FetchSucceeded
    /\ faqsResponse.data = NoData
    /\ faqsState = <<>>

\* C19: when Supabase is configured and the FAQ fetch succeeded, the reply
\* scheduled for a user message is computed against the fetched FAQ records;
\* otherwise, once fetchFAQs has finished, against the built-in default list
C19_RepliesOverFetchedFaqs ==
    [][(fetchFAQsTask = "finished" /\ Len(replyTimers') = Len(replyTimers) + 1) =>
          LET userMessage == messages'[Len(messages')].text
              scheduled == replyTimers'[Len(replyTimers')].reply
              catalog == IF FetchSucceeded THEN faqsState ELSE sampleFaqs
          IN  \E r1 \in RandomIndex(3), r2 \in RandomIndex(3) :
                  scheduled = analyzeOver(userMessage, catalog, r1, r2).reply]_vars

\* the rows of conversation_messages under the session's conversation that
\* carry the text and the side of the transcript message m
RowsOf(m) ==
    {k \in 1..Len(conversationMessages) :
        /\ conversationMessages[k].conversation_id = ConversationRowId
        /\ conversationMessages[k].message_text = m.text
        /\ conversationMessages[k].is_bot = m.isBot}

\* the transcript messages with the text and the side of m
CopiesOf(m) ==
    {k \in 1..Len(messages) :
        messages[k].text = m.text /\ messages[k].isBot = m.isBot}

\* the transcript message m has its row in conversation_messages
Saved(m) == Cardinality(RowsOf(m)) >= Cardinality(CopiesOf(m))

\* nothing is left to happen for the messages of the transcript: the
\* conversation row was created, no reply is scheduled and no request is in
\* flight
Settled ==
    /\ conversationInsert = "settled"
    /\ replyTimers = <<>>
    /\ dbRequests = <<>>

\* C20: with Supabase enabled and no database error, every message of the
\* transcript (the welcome message, each user message and each bot reply)
\* has been inserted into conversation_messages for the session's
\* conversation by the time nothing is left in flight, whatever the
\* interleaving of the sends with the creation of the conversation row
C20_EveryMessageSaved ==
    (supabaseEnabled /\ ~dbFailed /\ Settled) =>
        \A k \in 1..Len(messages) : Saved(messages[k])

\* C21: after every saved message the conversation row's message_count is
\* the total number of messages of that conversation so far: once nothing is
\* in flight and some message was saved without a database error, the count
\* is the length of the transcript
C21_MessageCount ==
    (supabaseEnabled /\ ~dbFailed /\ Settled /\ conversationMessages # <<>>) =>
        \A r \in 1..Len(conversations) :
            conversations[r].message_count = Len(messages)

\* the positions of the welcome message in the transcript
WelcomePositions ==
    {k \in 1..Len(messages) :
        messages[k].isBot /\ messages[k].text = WelcomeText}

\* C23: across any sequence of opening the chat, closing it and sending
\* messages, the welcome message appears exactly once in the transcript, as
\* its first message, and no step removes or changes an earlier message
C23_WelcomeOnce ==
    /\ [](messages # <<>> => WelcomePositions = {1})
    /\ [][/\ Len(messages') >= Len(messages)
          /\ SubSeq(messages', 1, Len(messages)) = messages]_vars

\* the chat closed again after a message was sent and answered
C23_Witness ==
    /\ ~isOpen
    /\ Len(messages) = 3
    /\ WelcomePositions = {1}

\* the least number of single-character insertions, deletions and
\* substitutions that turn a into b
RECURSIVE editDistance(_, _)
editDistance(a, b) ==
    IF a = <<>> THEN Len(b)
    ELSE IF b = <<>> THEN Len(a)
    ELSE Min2(Min2(editDistance(Tail(a), b) + 1, editDistance(a, Tail(b)) + 1),
              editDistance(Tail(a), Tail(b))
                 + (IF Head(a) = Head(b) THEN 0 ELSE 1))

\* C24: levenshtein(a, b) is the edit distance between a and b for all
\* strings, the empty and the equal ones included, and for non-empty inputs
\* similarity(a, b) = 1 - editDistance(a, b) / max(len(a), len(b))
C24_EditDistance ==
    LET a == operands.a
        b == operands.b
        longer == Max2(Len(a), Len(b))
    IN  /\ levResult # NotCalled => levResult.value = editDistance(a, b)
        /\ (simResult # NotCalled /\ a # <<>> /\ b # <<>>) =>
              simResult.value = DoubleSub(One, Double(editDistance(a, b), longer))

\* two strings of different lengths, neither a part of the other, whose
\* distance needs a substitution and an insertion
C24_Witness ==
    /\ levResult # NotCalled
    /\ simResult # NotCalled
    /\ operands.a = <<"a", "b">>
    /\ operands.b = <<"b", "a", "a">>
    /\ levResult.value = 2

\* C25: for every FAQ of the built-in default catalog, findFaq called with
\* that FAQ's own question over the default catalog returns that same FAQ
C25_OwnQuestion ==
    \A k \in 1..Len(sampleFaqs) :
        (match # NotCalled /\ faqs = sampleFaqs /\ text = sampleFaqs[k].question) =>
            /\ "faq" \in DOMAIN match
            /\ match.faq = sampleFaqs[k]

\* what the promise of listenOnce is resolved with when the recognizer's
\* event ev is the first thing to happen
OutcomeOf(ev) ==
    IF ev.type = "result" THEN [transcript |-> ev.payload]
    ELSE IF ev.type = "error"
    THEN [error |-> IF ev.payload \in {Undefined, <<>>}
                    THEN SpeechRecognitionError ELSE ev.payload]
    ELSE [error |-> NoSpeechDetected]

\* C22: the promise of listenOnce never rejects or hangs: it is resolved at
\* the call when there is no recognizer or recog.start() throws, otherwise by
\* the first of the result, error and end events and the timeout, at the
\* latest when the timeout has elapsed, and nothing that happens afterwards
\* changes the outcome
C22_ListenOncePromise ==
    /\ [](promise # NotCalled => promise.state \in {"pending", "resolved"})
    /\ []((promise # NotCalled /\ listenTimer # "armed") =>
             promise.state = "resolved")
    /\ [][(promise = NotCalled /\ promise' # NotCalled) =>
             IF ~recognitionSupported
             THEN promise' = Resolved([error |-> NotSupportedError])
             ELSE \/ promise' = Resolved([error |-> FailedToStart])
                  \/ promise' = Pending /\ listenTimer' = "armed"]_vars
    /\ [][(promise = Pending /\ dispatched' # dispatched) =>
             promise' = Resolved(OutcomeOf(dispatched'[Len(dispatched')]))]_vars
    /\ [][(promise = Pending /\ listenTimer' = "fired") =>
             promise' = Resolved([error |-> ListeningTimedOut])]_vars
    /\ [][(promise # NotCalled /\ promise # Pending) => promise' = promise]_vars

\* the promise resolved by a result event, the recognizer's error event and
\* the timeout having come afterwards
C22_Witness ==
    /\ promise = Resolved([transcript |-> <<"h","i">>])
    /\ Len(dispatched) = 2
    /\ dispatched[2].type = "error"
    /\ listenTimer = "fired"

RECURSIVE SeatsBookedIn(_)
SeatsBookedIn(rows) ==
    IF rows = <<>> THEN 0
    ELSE Head(rows).seats_booked + SeatsBookedIn(Tail(rows))

\* no submission is between its requests
NoSubmissionInFlight ==
    \A f \in Forms : bookingForms[f].request = "none"

\* C26: for any interleaving of booking submissions from concurrently open
\* forms, the stored available_seats plus the seats of the bookings recorded
\* for the showtime is the showtime's initial available_seats, whenever no
\* submission is between its requests and none has ended in an error
C26_SeatsConserved ==
    (NoSubmissionInFlight /\ \A f \in Forms : bookingForms[f].error = Null) =>
        showtimeRow.available_seats + SeatsBookedIn(bookings) =
            showtimeRow.total_seats

\* C27: a submission that has ended in the error state (the error message is
\* shown, the success screen is not) has recorded no booking row and has not
\* changed the available_seats of the showtime
C27_ErrorLeavesNoBooking ==
    \A f \in Forms :
        (/\ bookingForms[f].mounted
         /\ bookingForms[f].request = "none"
         /\ bookingForms[f].error # Null
         /\ ~bookingForms[f].success) =>
            /\ bookingForms[f].booking = 0
            /\ ~bookingForms[f].seatsWritten

\* C28: bot replies are appended to the transcript in the order of the user
\* messages that triggered them, typed or spoken: the reply that is appended
\* is always the one scheduled first among those still pending
C28_RepliesInOrder ==
    [][Len(replyTimers') < Len(replyTimers) => replyTimers' = Tail(replyTimers)]_vars

====
